---- MODULE Spec2Model ----
(***************************************************************************)
(* GymTracker: the automatic workout generator (lib/workoutGenerator,      *)
(* kept in src/src/lib/storage.ts from line 261 on) over a static exercise *)
(* catalog, with its two pure helpers estimateExerciseCount and            *)
(* generateWorkoutName checked under specifications of their own.          *)
(* Further specifications: ModalSpec, the AutoGenerateModal that calls the  *)
(* generator; TrackerSpec, the WorkoutProvider with the active workout and *)
(* the session history in localStorage; BuilderSpec, the mount of the      *)
(* WorkoutBuilder and its persisted state; HistorySpec, getSessions and    *)
(* getRecentSessions; BalanceSpec, SelectSpec and DurationSpec, the pure    *)
(* helpers balanceExerciseSelection, selectExercises and the duration      *)
(* estimates; TimerSpec, the RestTimer.                                    *)
(***************************************************************************)
EXTENDS Integers, Sequences, FiniteSets, TLC

VARIABLES
  EXERCISE_DATABASE,    \* the catalog: a sequence of ExerciseTemplate records
  preferences,          \* the WorkoutGenerationPreferences of the last call
  targetExerciseCount,  \* local of generateWorkout, last call
  usedIds,              \* local of generateWorkout, last call
  usedIdsBefore,        \* the identifiers chosen by the call before the last
  orderedExercises,     \* local of generateWorkout, last call
  workout,              \* the WorkoutTemplate returned by the last call
  estArgs,              \* arguments of the last estimateExerciseCount call
  estCount,             \* its result
  nameMuscles,          \* argument of the last generateWorkoutName call
  nameResult,           \* its result
  \* AutoGenerateModal (components/Workout/WorkoutBuilder.tsx)
  selectedMuscles,      \* useState: the muscle groups ticked
  modalDurationMinutes, \* useState durationMinutes: the slider
  modalDifficulty,      \* useState difficulty
  lastPreferences,      \* useState: preferences kept for Regenerate
  alertShown,           \* the message of the alert() of the last handler
  \* WorkoutProvider (contexts/WorkoutContext.tsx) and its localStorage keys
  activeWorkout,        \* useState: the session in progress, or Null
  storedActiveWorkout,  \* localStorage["gym-tracker-active-workout"]
  storedSessions,       \* localStorage["gym-tracker-sessions"]
  providerPhase,        \* "mounting": effects of the first render pending
  now,                  \* the clock read by new Date(), in milliseconds
  thrown,               \* the error the last handler ended with, or ""
  \* WorkoutBuilder (components/Workout/WorkoutBuilder.tsx)
  builderWorkout,       \* useState workout of the builder
  storedBuilderState,   \* localStorage["gym-tracker-builder-state"]
  builderPhase,         \* which effects of the builder are still pending
  builderPending,       \* the value given to setWorkout, not rendered yet
  persistedAtLoad,      \* what was persisted when the page was loaded
  \* getSessions / getRecentSessions
  sessionsResult,       \* the last answer of getSessions or getRecentSessions
  \* the pure helpers of lib/workoutGenerator, each under its own specification
  balArgs,              \* arguments of the last balanceExerciseSelection call
  balResult,            \* its result, the Map as a function
  selArgs,              \* arguments of the last selectExercises call
  selResult,            \* its result
  durArgs,              \* arguments of the last duration estimate
  durResult,            \* its result
  \* RestTimer (components/Workout/RestTimer.tsx)
  secondsLeft,          \* useState
  isRunning,            \* useState
  totalSeconds,         \* useState
  onCompleteCalls       \* how often the onComplete prop has been called

genVars  == <<EXERCISE_DATABASE, preferences, targetExerciseCount, usedIds,
              usedIdsBefore, orderedExercises, workout>>
estVars  == <<estArgs, estCount>>
nameVars == <<nameMuscles, nameResult>>
modalVars   == <<selectedMuscles, modalDurationMinutes, modalDifficulty,
                 lastPreferences, alertShown>>
trackerVars == <<activeWorkout, storedActiveWorkout, storedSessions,
                 providerPhase, now, thrown>>
builderVars == <<builderWorkout, storedBuilderState, builderPhase,
                 builderPending, persistedAtLoad>>
historyVars == <<sessionsResult>>
balVars     == <<balArgs, balResult>>
selVars     == <<selArgs, selResult>>
durVars     == <<durArgs, durResult>>
timerVars   == <<secondsLeft, isRunning, totalSeconds, onCompleteCalls>>
laterVars   == <<balVars, selVars, durVars, timerVars>>
vars     == <<genVars, estVars, nameVars, modalVars, trackerVars, builderVars,
              historyVars, laterVars>>

\* ---------------------------------------------------------------- bounds
MaxCatalog  == 6     \* largest catalog drawn from the master list
MaxDuration == 80    \* largest durationMinutes given to the estimator
MaxMuscles  == 4     \* longest muscle list given to the name derivation

\* ------------------------------------------------------- program constants
AVG_TIME_PER_SET_SECONDS == 40
AVG_REST_BETWEEN_EXERCISES_SECONDS == 60
DefaultDurationMinutes == 60
FallbackCount == 5
MinExercises == 3
MaxExercises == 12

\* ------------------------------------------------------------------ types
MuscleGroup == {"Chest", "Back", "Legs", "Shoulders", "Arms", "Core", "Other"}
ExerciseCategory == {"compound", "isolation", "finisher"}
ExerciseDifficulty == {"beginner", "intermediate", "advanced"}

\* null / undefined
Null == [null |-> TRUE]
\* the category argument left out
NoCategory == ""

\* The parts of the application a specification leaves untouched.
ModalIdle ==
  /\ selectedMuscles = <<>>
  /\ modalDurationMinutes = 60
  /\ modalDifficulty = "beginner"
  /\ lastPreferences = Null
  /\ alertShown = ""
TrackerIdle ==
  /\ activeWorkout = Null
  /\ storedActiveWorkout = Null
  /\ storedSessions = <<>>
  /\ providerPhase = "ready"
  /\ now = 0
  /\ thrown = ""
BuilderIdle ==
  /\ builderWorkout = Null
  /\ storedBuilderState = Null
  /\ builderPhase = "unmounted"
  /\ builderPending = Null
  /\ persistedAtLoad = Null
HistoryIdle == sessionsResult = Null
BalIdle == balArgs = Null /\ balResult = Null
SelIdle == selArgs = Null /\ selResult = Null
DurIdle == durArgs = Null /\ durResult = Null
TimerIdle ==
  /\ secondsLeft = 0
  /\ isRunning = FALSE
  /\ totalSeconds = 0
  /\ onCompleteCalls = 0
LaterIdle == BalIdle /\ SelIdle /\ DurIdle /\ TimerIdle

\* An optional property: absent, or present with one of the values.
Optional(field, values) ==
  {[f \in {} |-> 0]} \cup {[f \in {field} |-> v] : v \in values}

Has(rec, field) == field \in DOMAIN rec

Min(a, b) == IF a < b THEN a ELSE b
Max(a, b) == IF a > b THEN a ELSE b

\* -------------------------------------------------------------- the catalog
\* ExerciseTemplate: the fields the generator reads.  secondaryMuscles and
\* difficulty are optional properties.
ExerciseTemplate(id, muscle, category, opt) ==
  [id |-> id, muscleGroup |-> muscle, category |-> category] @@ opt

MasterCatalog ==
  << ExerciseTemplate(1, "Chest", "compound",
        [secondaryMuscles |-> {"Shoulders", "Arms"}, difficulty |-> "intermediate"]),
     ExerciseTemplate(2, "Chest", "isolation",
        [secondaryMuscles |-> {}, difficulty |-> "beginner"]),
     ExerciseTemplate(3, "Chest", "finisher",
        [secondaryMuscles |-> {"Arms"}, difficulty |-> "intermediate"]),
     ExerciseTemplate(4, "Legs", "compound",
        [secondaryMuscles |-> {"Core"}, difficulty |-> "advanced"]),
     ExerciseTemplate(5, "Back", "compound",
        [secondaryMuscles |-> {"Arms"}]),
     ExerciseTemplate(6, "Arms", "isolation",
        [difficulty |-> "advanced"]),
     ExerciseTemplate(7, "Shoulders", "finisher",
        [secondaryMuscles |-> {"Chest"}, difficulty |-> "advanced"]),
     ExerciseTemplate(8, "Legs", "isolation",
        [secondaryMuscles |-> {}, difficulty |-> "intermediate"]) >>

\* The subsequence of s at the positions in idx, in order.
RECURSIVE Pick(_, _)
Pick(s, idx) ==
  IF s = <<>> THEN <<>>
  ELSE LET rest == Pick(Tail(s), {i - 1 : i \in idx \ {1}})
       IN IF 1 \in idx THEN <<Head(s)>> \o rest ELSE rest

Catalogs ==
  {Pick(MasterCatalog, idx) :
     idx \in {x \in SUBSET (1..Len(MasterCatalog)) : Cardinality(x) <= MaxCatalog}}

Range(s) == {s[i] : i \in 1..Len(s)}
Ids(s) == {s[i].id : i \in 1..Len(s)}

\* ------------------------------------------------------ Array.prototype
\* arr.slice(0, end): a negative end counts from the end of the array.
Slice(arr, end) ==
  LET n == Len(arr)
      k == IF end < 0 THEN Max(n + end, 0) ELSE Min(end, n)
  IN SubSeq(arr, 1, k)

\* arr.filter(test)
Filter(arr, Test(_)) ==
  LET kept[i \in 0..Len(arr)] ==
        IF i = 0 THEN <<>>
        ELSE IF Test(arr[i]) THEN Append(kept[i - 1], arr[i]) ELSE kept[i - 1]
  IN kept[Len(arr)]

\* [...arr].sort(() => Math.random() - 0.5): some permutation of arr.
Shuffles(arr) ==
  {[i \in 1..Len(arr) |-> arr[p[i]]] : p \in Permutations(1..Len(arr))}

\* ------------------------------------------------------------ the generator
\* Variant: the category test without the "no category given" case.
filterExercisesByMuscles_categoryRequired(muscles, category) ==
  LET Match(ex) ==
        LET primaryMatch == ex.muscleGroup \in Range(muscles)
            secondaryMatch == /\ Has(ex, "secondaryMuscles")
                              /\ \E m \in ex.secondaryMuscles : m \in Range(muscles)
            categoryMatch == ex.category = category
        IN (primaryMatch \/ secondaryMatch) /\ categoryMatch
  IN Filter(EXERCISE_DATABASE, Match)

\* Variant: primary matches followed by secondary matches, so an exercise
\* matching both ways is listed twice.
filterExercisesByMuscles_concat(muscles, category) ==
  LET Primary(ex) ==
        /\ ex.muscleGroup \in Range(muscles)
        /\ (category = NoCategory \/ ex.category = category)
      Secondary(ex) ==
        /\ Has(ex, "secondaryMuscles")
        /\ \E m \in ex.secondaryMuscles : m \in Range(muscles)
        /\ (category = NoCategory \/ ex.category = category)
  IN Filter(EXERCISE_DATABASE, Primary) \o Filter(EXERCISE_DATABASE, Secondary)

\* Variant: any exercise with a secondary muscle counts as a secondary match.
filterExercisesByMuscles_anySecondary(muscles, category) ==
  LET Match(ex) ==
        LET primaryMatch == ex.muscleGroup \in Range(muscles)
            secondaryMatch == /\ Has(ex, "secondaryMuscles")
                              /\ ex.secondaryMuscles # {}
            categoryMatch == category = NoCategory \/ ex.category = category
        IN (primaryMatch \/ secondaryMatch) /\ categoryMatch
  IN Filter(EXERCISE_DATABASE, Match)

filterExercisesByMuscles(muscles, category) ==
  LET Match(ex) ==
        LET primaryMatch == ex.muscleGroup \in Range(muscles)
            secondaryMatch == /\ Has(ex, "secondaryMuscles")
                              /\ \E m \in ex.secondaryMuscles : m \in Range(muscles)
            categoryMatch == category = NoCategory \/ ex.category = category
        IN (primaryMatch \/ secondaryMatch) /\ categoryMatch
  IN Filter(EXERCISE_DATABASE, Match)

\* The results selectExercises can return: the shuffle is any permutation.
\* Variant: the excluded identifiers are not looked at.
selectExercises_ignoresExclude(availableExercises, count, excludeIds) ==
  {Slice(shuffled, count) : shuffled \in Shuffles(availableExercises)}

selectExercises(availableExercises, count, excludeIds) ==
  LET NotExcluded(ex) == ex.id \notin excludeIds
      filtered == Filter(availableExercises, NotExcluded)
  IN {Slice(shuffled, count) : shuffled \in Shuffles(filtered)}

\* Variant: the lower clamp forgotten.
estimateExerciseCount_noLowerClamp(durationMinutes, defaultRestSeconds) ==
  LET durationSeconds == durationMinutes * 60
      avgExerciseDuration == (3 * AVG_TIME_PER_SET_SECONDS)
                             + (2 * defaultRestSeconds)
                             + AVG_REST_BETWEEN_EXERCISES_SECONDS
      count == durationSeconds \div avgExerciseDuration
  IN Min(MaxExercises, count)

estimateExerciseCount(durationMinutes, defaultRestSeconds) ==
  LET durationSeconds == durationMinutes * 60
      avgExerciseDuration == (3 * AVG_TIME_PER_SET_SECONDS)
                             + (2 * defaultRestSeconds)
                             + AVG_REST_BETWEEN_EXERCISES_SECONDS
      count == durationSeconds \div avgExerciseDuration
  IN Max(MinExercises, Min(MaxExercises, count))

\* Variant: the Leg Day pattern tested before the Pull Day pattern.
generateWorkoutName_legsFirst(muscles) ==
  LET hasChest == "Chest" \in Range(muscles)
      hasShoulders == "Shoulders" \in Range(muscles)
      hasArms == "Arms" \in Range(muscles)
      hasBack == "Back" \in Range(muscles)
      hasLegs == "Legs" \in Range(muscles)
  IN IF Len(muscles) = 1 THEN <<muscles[1], " Day">>
     ELSE IF Len(muscles) = 2 THEN <<muscles[1], " & ", muscles[2]>>
     ELSE IF hasChest /\ hasShoulders /\ hasArms THEN <<"Push Day">>
     ELSE IF hasLegs THEN <<"Leg Day">>
     ELSE IF hasBack /\ hasArms THEN <<"Pull Day">>
     ELSE IF hasChest /\ hasBack THEN <<"Upper Body">>
     ELSE IF Len(muscles) > 2 THEN <<muscles[1], ", ", muscles[2], " + More">>
     ELSE <<"Full Body Workout">>

\* Variant: the common patterns looked for before the two-muscle form.
generateWorkoutName_patternsFirst(muscles) ==
  LET hasChest == "Chest" \in Range(muscles)
      hasShoulders == "Shoulders" \in Range(muscles)
      hasArms == "Arms" \in Range(muscles)
      hasBack == "Back" \in Range(muscles)
      hasLegs == "Legs" \in Range(muscles)
  IN IF Len(muscles) = 1 THEN <<muscles[1], " Day">>
     ELSE IF hasChest /\ hasShoulders /\ hasArms THEN <<"Push Day">>
     ELSE IF hasBack /\ hasArms THEN <<"Pull Day">>
     ELSE IF hasLegs THEN <<"Leg Day">>
     ELSE IF hasChest /\ hasBack THEN <<"Upper Body">>
     ELSE IF Len(muscles) = 2 THEN <<muscles[1], " & ", muscles[2]>>
     ELSE IF Len(muscles) > 2 THEN <<muscles[1], ", ", muscles[2], " + More">>
     ELSE <<"Full Body Workout">>

generateWorkoutName(muscles) ==
  LET hasChest == "Chest" \in Range(muscles)
      hasShoulders == "Shoulders" \in Range(muscles)
      hasArms == "Arms" \in Range(muscles)
      hasBack == "Back" \in Range(muscles)
      hasLegs == "Legs" \in Range(muscles)
  IN IF Len(muscles) = 1 THEN <<muscles[1], " Day">>
     ELSE IF Len(muscles) = 2 THEN <<muscles[1], " & ", muscles[2]>>
     ELSE IF hasChest /\ hasShoulders /\ hasArms THEN <<"Push Day">>
     ELSE IF hasBack /\ hasArms THEN <<"Pull Day">>
     ELSE IF hasLegs THEN <<"Leg Day">>
     ELSE IF hasChest /\ hasBack THEN <<"Upper Body">>
     ELSE IF Len(muscles) > 2 THEN <<muscles[1], ", ", muscles[2], " + More">>
     ELSE <<"Full Body Workout">>

\* Math.ceil(n * 0.5), Math.ceil(n * 0.35), Math.floor(n * 0.15)
CeilPercent(n, pct) == -((-(n * pct)) \div 100)
FloorPercent(n, pct) == (n * pct) \div 100

\* Variant: every exercise of the target count may be a compound one.
compoundCount_whole(target) == target

compoundCount(target) == CeilPercent(target, 50)
isolationCount(target) == CeilPercent(target, 35)
finisherCount(target) == Max(1, FloorPercent(target, 15))

\* Variant: "intermediate" keeps intermediate entries only.
DifficultyKeeps_intermediateOnly(difficulty, ex) ==
  IF ~Has(ex, "difficulty") THEN TRUE
  ELSE IF difficulty = "beginner" THEN ex.difficulty = "beginner"
  ELSE IF difficulty = "intermediate" THEN ex.difficulty = "intermediate"
  ELSE TRUE

\* The difficulty filter of step 5.
DifficultyKeeps(difficulty, ex) ==
  IF ~Has(ex, "difficulty") THEN TRUE
  ELSE IF difficulty = "beginner" THEN ex.difficulty = "beginner"
  ELSE IF difficulty = "intermediate" THEN ex.difficulty # "advanced"
  ELSE TRUE

\* Variant: only the first muscle group is looked at.
defaultRestSecondsFor_firstOnly(muscleGroups) ==
  IF muscleGroups[1] = "Legs" THEN 90 ELSE 60

defaultRestSecondsFor(muscleGroups) ==
  IF "Legs" \in Range(muscleGroups) THEN 90 ELSE 60

targetExerciseCountFor(prefs) ==
  LET durationMinutes == IF Has(prefs, "durationMinutes")
                         THEN prefs.durationMinutes ELSE DefaultDurationMinutes
  IN IF Has(prefs, "exerciseCount") /\ prefs.exerciseCount # 0
     THEN prefs.exerciseCount
     ELSE estimateExerciseCount(durationMinutes,
                                defaultRestSecondsFor(prefs.muscleGroups))

\* Variant: the fallback pool restricted to compound movements.
fallbackExercises_compoundOnly(muscleGroups) ==
  filterExercisesByMuscles(muscleGroups, "compound")

\* Fallback: any exercises for these muscles.
fallbackExercises(muscleGroups) ==
  filterExercisesByMuscles(muscleGroups, NoCategory)

\* The preferences the generator is called with.
MuscleLists ==
  { <<"Chest">>, <<"Legs">>, <<"Other">>, <<"Back", "Core">>,
    <<"Chest", "Legs", "Arms">> }
Durations == {1, 60}
ExerciseCounts == {0, 1, 4}

Preferences ==
  { [muscleGroups |-> m] @@ d @@ l @@ c :
      m \in MuscleLists,
      d \in Optional("durationMinutes", Durations),
      l \in Optional("difficulty", ExerciseDifficulty),
      c \in Optional("exerciseCount", ExerciseCounts) }

\* Variant: the chosen-identifier set kept at module level, so that a call
\* starts from the identifiers of the call before.
newUsedIds_shared == usedIds

\* const usedIds = new Set<string>(): every call starts from an empty set.
newUsedIds == {}

generateWorkout(prefs) ==
  LET muscleGroups == prefs.muscleGroups
      durationMinutes == IF Has(prefs, "durationMinutes")
                         THEN prefs.durationMinutes ELSE DefaultDurationMinutes
      defaultRestSeconds == defaultRestSecondsFor(muscleGroups)
      target == targetExerciseCountFor(prefs)
      compoundExercises == filterExercisesByMuscles(muscleGroups, "compound")
      isolationExercises == filterExercisesByMuscles(muscleGroups, "isolation")
      finisherExercises == filterExercisesByMuscles(muscleGroups, "finisher")
  IN \E selectedCompounds \in
          selectExercises(compoundExercises, compoundCount(target), newUsedIds) :
     \E selectedIsolations \in
          selectExercises(isolationExercises, isolationCount(target),
                          newUsedIds \cup Ids(selectedCompounds)) :
     \E selectedFinishers \in
          selectExercises(finisherExercises, finisherCount(target),
                          newUsedIds \cup Ids(selectedCompounds)
                            \cup Ids(selectedIsolations)) :
       LET ordered == selectedCompounds \o selectedIsolations \o selectedFinishers
           Keeps(ex) == DifficultyKeeps(prefs.difficulty, ex)
           filteredByDifficulty ==
             IF Has(prefs, "difficulty") THEN Filter(ordered, Keeps) ELSE ordered
           fallback == fallbackExercises(muscleGroups)
       IN \E finalExercises \in
               (IF Len(filteredByDifficulty) = 0
                THEN selectExercises(fallback, FallbackCount, {})
                ELSE {filteredByDifficulty}) :
            /\ preferences' = prefs
            /\ targetExerciseCount' = target
            /\ usedIds' = newUsedIds \cup Ids(ordered)
            /\ usedIdsBefore' = usedIds
            /\ orderedExercises' = ordered
            /\ workout' = [ name |-> generateWorkoutName(muscleGroups),
                            muscles |-> muscleGroups,
                            exercises |-> finalExercises,
                            defaultRestSeconds |-> defaultRestSeconds,
                            estimatedDurationMinutes |-> durationMinutes ]
            /\ UNCHANGED <<EXERCISE_DATABASE, estVars, nameVars, trackerVars,
                           builderVars, historyVars,
                           laterVars>>

\* A generation request: the modal holds no generated workout yet.
GenerateWorkout ==
  /\ workout = Null
  /\ \E prefs \in Preferences : generateWorkout(prefs)
  /\ UNCHANGED modalVars

\* The caller discards the plan (the modal is cancelled); nothing of the call
\* survives but the catalog.
DiscardWorkout ==
  /\ workout # Null
  /\ preferences' = Null
  /\ targetExerciseCount' = 0
  /\ usedIds' = {}
  /\ usedIdsBefore' = {}
  /\ orderedExercises' = <<>>
  /\ workout' = Null
  /\ UNCHANGED <<EXERCISE_DATABASE, estVars, nameVars, modalVars, trackerVars,
                 builderVars, historyVars,
                 laterVars>>

GenIdle ==
  /\ EXERCISE_DATABASE = <<>>
  /\ preferences = Null
  /\ targetExerciseCount = 0
  /\ usedIds = {}
  /\ usedIdsBefore = {}
  /\ orderedExercises = <<>>
  /\ workout = Null
EstIdle == estArgs = Null /\ estCount = 0
\* no name derived yet
NoName == <<>>
NameIdle == nameMuscles = <<>> /\ nameResult = NoName

Init ==
  /\ EXERCISE_DATABASE \in Catalogs
  /\ preferences = Null
  /\ targetExerciseCount = 0
  /\ usedIds = {}
  /\ usedIdsBefore = {}
  /\ orderedExercises = <<>>
  /\ workout = Null
  /\ EstIdle
  /\ NameIdle
  /\ ModalIdle
  /\ TrackerIdle
  /\ BuilderIdle
  /\ HistoryIdle /\ LaterIdle

Next == GenerateWorkout \/ DiscardWorkout

Spec == Init /\ [][Next]_vars

\* ------------------------------------------- estimateExerciseCount alone
RestSeconds == {0, 30, 60, 90, 120}

EstimateExerciseCount ==
  \E d \in 0..MaxDuration, r \in RestSeconds :
    /\ estArgs' = [durationMinutes |-> d, defaultRestSeconds |-> r]
    /\ estCount' = estimateExerciseCount(d, r)
    /\ UNCHANGED <<genVars, nameVars, modalVars, trackerVars, builderVars,
                   historyVars,
                   laterVars>>

EstInit ==
  /\ GenIdle /\ EstIdle /\ NameIdle
  /\ ModalIdle /\ TrackerIdle /\ BuilderIdle /\ HistoryIdle /\ LaterIdle
EstNext == EstimateExerciseCount
EstSpec == EstInit /\ [][EstNext]_vars

\* --------------------------------------------- generateWorkoutName alone
RECURSIVE SeqsUpTo(_, _)
SeqsUpTo(S, n) ==
  IF n = 0 THEN {<<>>}
  ELSE LET shorter == SeqsUpTo(S, n - 1)
       IN shorter \cup {Append(q, x) : q \in shorter, x \in S}

GenerateWorkoutName ==
  /\ nameResult = NoName
  /\ nameResult' = generateWorkoutName(nameMuscles)
  /\ UNCHANGED <<genVars, estVars, nameMuscles, modalVars, trackerVars,
                 builderVars, historyVars,
                 laterVars>>

NameInit ==
  /\ GenIdle
  /\ EstIdle
  /\ nameMuscles \in SeqsUpTo(MuscleGroup, MaxMuscles)
  /\ nameResult = NoName
  /\ ModalIdle /\ TrackerIdle /\ BuilderIdle /\ HistoryIdle /\ LaterIdle
NameNext == GenerateWorkoutName
NameSpec == NameInit /\ [][NameNext]_vars

\* ======================================================== properties
\* Vocabulary of the properties, stated independently of the generator.
MatchesMuscles(ex, muscles) ==
  \/ ex.muscleGroup \in Range(muscles)
  \/ /\ Has(ex, "secondaryMuscles")
     /\ ex.secondaryMuscles \cap Range(muscles) # {}

\* All catalog exercises matching the requested muscles, in any category.
MatchingPool == {ex \in Range(EXERCISE_DATABASE) :
                   MatchesMuscles(ex, preferences.muscleGroups)}

CategoryRank(category) ==
  CASE category = "compound" -> 1
    [] category = "isolation" -> 2
    [] category = "finisher" -> 3

Passes(difficulty, ex) ==
  \/ ~Has(ex, "difficulty")
  \/ difficulty = "advanced"
  \/ difficulty = "intermediate" /\ ex.difficulty \in {"beginner", "intermediate"}
  \/ difficulty = "beginner" /\ ex.difficulty = "beginner"

Returned == workout # Null
DifficultyGiven == Returned /\ Has(preferences, "difficulty")
\* the selected exercises that pass the requested difficulty, in order
PassingSelection ==
  LET Ok(ex) == Passes(preferences.difficulty, ex)
  IN Filter(orderedExercises, Ok)
FilterLeavesNothing == DifficultyGiven /\ PassingSelection = <<>>

\* C1: for a non-empty muscle list, any duration >= 1 and any difficulty
\* setting, a catalog holding at least one exercise whose primary or
\* secondary muscle is requested yields a plan with at least one exercise.
C1_NeverEmptyPlan ==
  (/\ Returned
   /\ Len(preferences.muscleGroups) >= 1
   /\ MatchingPool # {})
  => Len(workout.exercises) >= 1

\* C1 witness: every selected exercise was dropped by the difficulty filter
\* and the fallback still produced a plan.
C1_Witness ==
  /\ FilterLeavesNothing
  /\ orderedExercises # <<>>
  /\ Len(workout.exercises) >= 1

\* C2: in every returned plan, on the normal and on the fallback path alike,
\* every compound exercise comes before every isolation exercise and every
\* isolation exercise before every finisher exercise.
C2_GroupedByCategory ==
  Returned =>
    \A i, j \in 1..Len(workout.exercises) :
      i < j => CategoryRank(workout.exercises[i].category)
               <= CategoryRank(workout.exercises[j].category)

\* C3: no exercise identifier occurs twice in a returned plan; the chosen
\* identifiers accumulated over the three selections are pairwise distinct
\* too, so that a later selection never repeats an earlier one.
C3_NoDuplicateIds ==
  Returned =>
    /\ \A i, j \in 1..Len(workout.exercises) :
         i # j => workout.exercises[i].id # workout.exercises[j].id
    /\ \A i, j \in 1..Len(orderedExercises) :
         i # j => orderedExercises[i].id # orderedExercises[j].id
    /\ usedIds = {orderedExercises[i].id : i \in 1..Len(orderedExercises)}

\* C3 witness: a plan of at least three exercises drawn from all three
\* categories, one of them matching by primary and by secondary muscle.
C3_Witness ==
  /\ Returned
  /\ Len(workout.exercises) >= 3
  /\ {workout.exercises[i].category : i \in 1..Len(workout.exercises)}
       = ExerciseCategory
  /\ \E i \in 1..Len(workout.exercises) :
       LET ex == workout.exercises[i]
       IN /\ ex.muscleGroup \in Range(preferences.muscleGroups)
          /\ Has(ex, "secondaryMuscles")
          /\ ex.secondaryMuscles \cap Range(preferences.muscleGroups) # {}

\* C4: every exercise of a returned plan has its primary muscle group, or at
\* least one secondary muscle group, among the requested muscle groups; on
\* the fallback path too.
C4_OnlyRequestedMuscles ==
  Returned =>
    \A i \in 1..Len(workout.exercises) :
      MatchesMuscles(workout.exercises[i], preferences.muscleGroups)

\* C4 witness: a fallback plan holding an exercise that matches through a
\* secondary muscle only.
C4_Witness ==
  /\ FilterLeavesNothing
  /\ \E i \in 1..Len(workout.exercises) :
       workout.exercises[i].muscleGroup \notin Range(preferences.muscleGroups)

\* C5: with a difficulty preference of which at least one selected exercise
\* passes, the plan is exactly the selected exercises that pass, in unchanged
\* order: beginner keeps beginner entries, intermediate keeps beginner and
\* intermediate, advanced keeps all, and an entry without a recorded
\* difficulty is always kept.
C5_DifficultyFilter ==
  (DifficultyGiven /\ PassingSelection # <<>>)
  => workout.exercises = PassingSelection

\* C5 witness: an "intermediate" request whose selection held an advanced
\* entry (dropped) and a beginner entry (kept).
C5_Witness ==
  /\ DifficultyGiven
  /\ preferences.difficulty = "intermediate"
  /\ \E i \in 1..Len(orderedExercises) :
       /\ Has(orderedExercises[i], "difficulty")
       /\ orderedExercises[i].difficulty = "advanced"
  /\ \E i \in 1..Len(workout.exercises) :
       /\ Has(workout.exercises[i], "difficulty")
       /\ workout.exercises[i].difficulty = "beginner"

\* C6: when the difficulty filter leaves zero exercises, the plan holds
\* min(5, size of the pool) exercises, all drawn from the pool of catalog
\* exercises matching the requested muscles in any category, whatever their
\* recorded difficulty.
C6_FallbackFromFullPool ==
  FilterLeavesNothing =>
    /\ Len(workout.exercises) = Min(5, Cardinality(MatchingPool))
    /\ Range(workout.exercises) \subseteq MatchingPool

\* C6 witness: a fallback over a pool of more than five exercises, cut to 5.
C6_Witness ==
  /\ FilterLeavesNothing
  /\ Cardinality(MatchingPool) > 5
  /\ Len(workout.exercises) = 5

\* C7: defaultRestSeconds of the plan is 90 if and only if "Legs" is among
\* the requested muscle groups, and 60 otherwise, whatever the duration,
\* difficulty, exerciseCount and selection.
C7_RestSeconds ==
  Returned =>
    /\ workout.defaultRestSeconds = 90
         <=> (\E i \in 1..Len(preferences.muscleGroups) :
                preferences.muscleGroups[i] = "Legs")
    /\ workout.defaultRestSeconds \in {60, 90}

\* C7 witness: "Legs" requested after another muscle group, rest 90.
C7_Witness ==
  /\ Returned
  /\ preferences.muscleGroups[1] # "Legs"
  /\ "Legs" \in Range(preferences.muscleGroups)
  /\ workout.defaultRestSeconds = 90

\* C8: estimateExerciseCount(d, r) = clamp(floor(d*60 / (3*40 + 2r + 60)),
\* 3, 12); it lies in [3, 12] and, for fixed r, no shorter duration gives a
\* larger count.
C8_EstimateClampedMonotone ==
  estArgs # Null =>
    LET d == estArgs.durationMinutes
        r == estArgs.defaultRestSeconds
        q == (d * 60) \div (3 * 40 + 2 * r + 60)
    IN /\ estCount = (IF q < 3 THEN 3 ELSE IF q > 12 THEN 12 ELSE q)
       /\ estCount \in 3..12
       /\ \A shorter \in 0..d : estimateExerciseCount(shorter, r) <= estCount

\* C8 witness: a result strictly inside the clamp for the Legs rest time.
C8_Witness ==
  /\ estArgs # Null
  /\ estArgs.defaultRestSeconds = 90
  /\ estCount = 7

\* C9: whenever exerciseCount is provided, whatever its value, it is the
\* target count; only when it is absent is the target the duration-based
\* estimate (duration 60 when absent).
C9_ExplicitCountWins ==
  Returned =>
    targetExerciseCount =
      IF Has(preferences, "exerciseCount") THEN preferences.exerciseCount
      ELSE estimateExerciseCount(
             IF Has(preferences, "durationMinutes")
             THEN preferences.durationMinutes ELSE 60,
             workout.defaultRestSeconds)

\* C10: the name is a function of the muscle list: one muscle M gives
\* "M Day"; two muscles A, B give "A & B"; three or more give, by priority,
\* "Push Day" (Chest, Shoulders, Arms present), "Pull Day" (Back, Arms),
\* "Leg Day" (Legs), "Upper Body" (Chest, Back), else "<first>, <second> +
\* More".
C10_NameDerivation ==
  nameResult # NoName =>
    LET m == nameMuscles
        present == {m[i] : i \in 1..Len(m)}
    IN /\ Len(m) = 1 => nameResult = <<m[1], " Day">>
       /\ Len(m) = 2 => nameResult = <<m[1], " & ", m[2]>>
       /\ Len(m) >= 3 =>
            nameResult =
              CASE {"Chest", "Shoulders", "Arms"} \subseteq present -> <<"Push Day">>
                [] /\ ~({"Chest", "Shoulders", "Arms"} \subseteq present)
                   /\ {"Back", "Arms"} \subseteq present -> <<"Pull Day">>
                [] /\ ~({"Chest", "Shoulders", "Arms"} \subseteq present)
                   /\ ~({"Back", "Arms"} \subseteq present)
                   /\ "Legs" \in present -> <<"Leg Day">>
                [] /\ ~({"Back", "Arms"} \subseteq present)
                   /\ "Legs" \notin present
                   /\ ~({"Chest", "Shoulders", "Arms"} \subseteq present)
                   /\ {"Chest", "Back"} \subseteq present -> <<"Upper Body">>
                [] OTHER -> <<m[1], ", ", m[2], " + More">>

\* C10 witness: Back, Arms and Legs all requested: "Pull Day" has priority.
C10_Witness ==
  /\ nameResult = <<"Pull Day">>
  /\ "Legs" \in Range(nameMuscles)
  /\ Len(nameMuscles) >= 3

\* C11 as stated: the name for [Back, Arms] is "Pull Day", for [Chest] it is
\* "Chest Day", and for [Chest, Back] it is "Upper Body".
C11_NamesAsStated ==
  nameResult # NoName =>
    /\ nameMuscles = <<"Back", "Arms">> => nameResult = <<"Pull Day">>
    /\ nameMuscles = <<"Chest">> => nameResult = <<"Chest", " Day">>
    /\ nameMuscles = <<"Chest", "Back">> => nameResult = <<"Upper Body">>

\* C11 amended: the name for [Back, Arms] is "Back & Arms", for [Chest] it is
\* "Chest Day", and for [Chest, Back] it is "Chest & Back"; "Pull Day" and
\* "Upper Body" are the names of [Back, Arms, Core] and [Chest, Back, Core],
\* lists of three muscles.
C11_NamesOfExamples ==
  nameResult # NoName =>
    /\ nameMuscles = <<"Back", "Arms">> =>
         nameResult = <<"Back", " & ", "Arms">>
    /\ nameMuscles = <<"Chest">> => nameResult = <<"Chest", " Day">>
    /\ nameMuscles = <<"Chest", "Back">> =>
         nameResult = <<"Chest", " & ", "Back">>
    /\ nameMuscles = <<"Back", "Arms", "Core">> => nameResult = <<"Pull Day">>
    /\ nameMuscles = <<"Chest", "Back", "Core">> =>
         nameResult = <<"Upper Body">>

\* C11 witness: the name of the list [Back, Arms] has been derived.
C11_Witness ==
  /\ nameMuscles = <<"Back", "Arms">>
  /\ nameResult # NoName

\* ------------------------------------------------------ AutoGenerateModal
\* The callers of generateWorkout: the Generate and Regenerate buttons and
\* the six preset buttons.  workout is the modal's generatedWorkout.
MaxModalCatalog == 5

\* the catalogs of the modal: the first entries of the master catalog
ModalCatalogs ==
  {SubSeq(MasterCatalog, 1, n) :
     n \in 0..Min(MaxModalCatalog, Len(MasterCatalog))}

\* the muscle buttons pressed, the slider positions and the levels chosen
ModalMuscles == {"Chest", "Legs"}
ModalDurations == {20, 60}
ModalDifficulties == {"beginner", "advanced"}

WORKOUT_PRESETS ==
  [ pushDay |-> [muscleGroups |-> <<"Chest", "Shoulders", "Arms">>,
                 durationMinutes |-> 60],
    pullDay |-> [muscleGroups |-> <<"Back", "Arms">>, durationMinutes |-> 60],
    legDay |-> [muscleGroups |-> <<"Legs", "Core">>, durationMinutes |-> 60],
    fullBody |-> [muscleGroups |-> <<"Chest", "Back", "Legs">>,
                  durationMinutes |-> 75],
    upperBody |-> [muscleGroups |-> <<"Chest", "Back", "Shoulders", "Arms">>,
                   durationMinutes |-> 75],
    quickWorkout |-> [muscleGroups |-> <<"Chest", "Back">>,
                      durationMinutes |-> 30, exerciseCount |-> 4] ]

getPresetPreferences(presetName) ==
  CASE presetName = "pushDay" ->
         [muscleGroups |-> <<"Chest", "Shoulders", "Arms">>,
          durationMinutes |-> 60]
    [] presetName = "pullDay" ->
         [muscleGroups |-> <<"Back", "Arms">>, durationMinutes |-> 60]
    [] presetName = "legDay" ->
         [muscleGroups |-> <<"Legs", "Core">>, durationMinutes |-> 60]
    [] presetName = "fullBody" ->
         [muscleGroups |-> <<"Chest", "Back", "Legs">>, durationMinutes |-> 75]
    [] presetName = "upperBody" ->
         [muscleGroups |-> <<"Chest", "Back", "Shoulders", "Arms">>,
          durationMinutes |-> 75]
    [] presetName = "quickWorkout" ->
         [muscleGroups |-> <<"Chest", "Back">>, durationMinutes |-> 30,
          exerciseCount |-> 4]
    [] OTHER -> [muscleGroups |-> <<"Chest">>, durationMinutes |-> 60]

handleMuscleToggle ==
  \E muscle \in ModalMuscles :
    /\ selectedMuscles' =
         IF muscle \in Range(selectedMuscles)
         THEN Filter(selectedMuscles, LAMBDA m : m # muscle)
         ELSE Append(selectedMuscles, muscle)
    /\ alertShown' = ""
    /\ UNCHANGED <<genVars, estVars, nameVars, modalDurationMinutes,
                   modalDifficulty, lastPreferences, trackerVars, builderVars,
                   historyVars,
                   laterVars>>

setDurationMinutes ==
  \E value \in ModalDurations :
    /\ modalDurationMinutes' = value
    /\ alertShown' = ""
    /\ UNCHANGED <<genVars, estVars, nameVars, selectedMuscles,
                   modalDifficulty, lastPreferences, trackerVars, builderVars,
                   historyVars,
                   laterVars>>

setDifficulty ==
  \E level \in ModalDifficulties :
    /\ modalDifficulty' = level
    /\ alertShown' = ""
    /\ UNCHANGED <<genVars, estVars, nameVars, selectedMuscles,
                   modalDurationMinutes, lastPreferences, trackerVars,
                   builderVars, historyVars,
                   laterVars>>

\* Variant: Generate without the test of the selection.
handleGenerateRejects_never == FALSE

\* if (selectedMuscles.length === 0)
handleGenerateRejects == Len(selectedMuscles) = 0

handleGenerate ==
  IF handleGenerateRejects
  THEN /\ alertShown' = "Please select at least one muscle group"
       /\ UNCHANGED <<genVars, estVars, nameVars, selectedMuscles,
                      modalDurationMinutes, modalDifficulty, lastPreferences,
                      trackerVars, builderVars, historyVars,
                      laterVars>>
  ELSE LET prefs == [muscleGroups |-> selectedMuscles,
                     durationMinutes |-> modalDurationMinutes,
                     difficulty |-> modalDifficulty]
       IN /\ generateWorkout(prefs)
          /\ lastPreferences' = prefs
          /\ alertShown' = ""
          /\ UNCHANGED <<selectedMuscles, modalDurationMinutes,
                         modalDifficulty>>

handleRegenerate ==
  /\ lastPreferences # Null
  /\ generateWorkout(lastPreferences)
  /\ alertShown' = ""
  /\ UNCHANGED <<selectedMuscles, modalDurationMinutes, modalDifficulty,
                 lastPreferences>>

handlePreset ==
  \E presetName \in DOMAIN WORKOUT_PRESETS :
    /\ generateWorkout(WORKOUT_PRESETS[presetName])
    /\ lastPreferences' = getPresetPreferences(presetName)
    /\ alertShown' = ""
    /\ UNCHANGED <<selectedMuscles, modalDurationMinutes, modalDifficulty>>

\* onCancel: the modal is unmounted and its state dropped; preferences,
\* usedIds and orderedExercises keep the record of the last call.
handleCancel ==
  /\ selectedMuscles' = <<>>
  /\ modalDurationMinutes' = 60
  /\ modalDifficulty' = "beginner"
  /\ lastPreferences' = Null
  /\ alertShown' = ""
  /\ workout' = Null
  /\ UNCHANGED <<EXERCISE_DATABASE, preferences, targetExerciseCount, usedIds,
                 usedIdsBefore, orderedExercises, estVars, nameVars, trackerVars, builderVars,
                 historyVars,
                 laterVars>>

ModalInit ==
  /\ EXERCISE_DATABASE \in ModalCatalogs
  /\ preferences = Null
  /\ targetExerciseCount = 0
  /\ usedIds = {}
  /\ usedIdsBefore = {}
  /\ orderedExercises = <<>>
  /\ workout = Null
  /\ EstIdle /\ NameIdle
  /\ ModalIdle /\ TrackerIdle /\ BuilderIdle /\ HistoryIdle /\ LaterIdle

ModalNext ==
  \/ handleMuscleToggle
  \/ setDurationMinutes
  \/ setDifficulty
  \/ handleGenerate
  \/ handleRegenerate
  \/ handlePreset
  \/ handleCancel

ModalSpec == ModalInit /\ [][ModalNext]_vars

\* C13: no path of the user interface calls generateWorkout with an empty
\* muscle list: Generate answers an empty selection with a message and makes
\* no call, Regenerate passes the preferences of an earlier Generate or
\* preset, and every preset names at least one muscle.
C13_NeverEmptyMuscleGroups ==
  /\ preferences # Null => Len(preferences.muscleGroups) >= 1
  /\ lastPreferences # Null => Len(lastPreferences.muscleGroups) >= 1
  /\ alertShown # "" => /\ selectedMuscles = <<>>
                        /\ alertShown = "Please select at least one muscle group"

\* C13 witness: after a plan was generated the selection was emptied and
\* Generate pressed again: the message is shown and the earlier plan stays.
C13_Witness ==
  /\ alertShown # ""
  /\ workout # Null
  /\ Has(preferences, "difficulty")

\* C14: generateWorkout leaves the catalog as it was, and a call starts from
\* an empty set of chosen identifiers: after every call the set holds the
\* identifiers this call chose and none of an earlier call.
C14_NoSharedWorkingState ==
  [][ /\ EXERCISE_DATABASE' = EXERCISE_DATABASE
      /\ usedIds' = Ids(orderedExercises') ]_vars

\* C14 witness: a call chose an exercise that the call before it had chosen
\* too.
C14_Witness ==
  /\ workout # Null
  /\ usedIdsBefore \cap usedIds # {}

\* --------------------------------------------------------- WorkoutProvider
\* The active workout, its copy in localStorage and the session history.
\* A value read back from localStorage is the value written: the sessions
\* hold strings, numbers, booleans and arrays only, which JSON.stringify and
\* JSON.parse give back unchanged; timestamps are ISO strings of millisecond
\* precision, modelled by the millisecond count new Date(...).getTime() reads
\* from them.

\* the sets one workout may hold, over all its exercises
MaxSets == 2

\* the values typed into the reps and weight fields
RepsValues == {5}
WeightValues == {2}
\* the time a workout takes, in milliseconds
Elapsed == {999, 2500}
\* the identifiers generateId returns
NewSessionIds == {"s1"}

TemplateExercise(id, title, muscle, defaultSets) ==
  [id |-> id, title |-> title, muscleGroup |-> muscle,
   description |-> "", defaultSets |-> defaultSets]

WorkoutTemplates ==
  { [id |-> "t1", name |-> "Back Day", muscles |-> <<"Back">>,
     defaultRestSeconds |-> 60,
     exercises |-> <<TemplateExercise("row", "Barbell Row", "Back", 1)>>],
    [id |-> "t2", name |-> "Chest & Arms", muscles |-> <<"Chest", "Arms">>,
     defaultRestSeconds |-> 60,
     exercises |-> <<TemplateExercise("bench", "Bench Press", "Chest", 2),
                     TemplateExercise("curl", "Biceps Curl", "Arms", 0)>>] }

\* Array.from({ length: n }, (_, i) => ({ setNumber: i + 1, reps: 0, weight: 0 }))
initialSets(defaultSets) ==
  [i \in 1..defaultSets |-> [setNumber |-> i, reps |-> 0, weight |-> 0]]

\* the exercises offered by the swap dialog, and one built by another caller
\* with sets and a completed mark of its own
SwapExercises(currentExercise) ==
  { [templateId |-> "dips", title |-> "Dips", muscleGroup |-> "Chest",
     description |-> "", sets |-> currentExercise.sets, completed |-> FALSE],
    [templateId |-> "fly", title |-> "Cable Fly", muscleGroup |-> "Shoulders",
     description |-> "fly", completed |-> TRUE,
     sets |-> <<[setNumber |-> 1, reps |-> 5, weight |-> 0]>>] }

\* a session finished before the page was loaded
OldSession ==
  [id |-> "s0", templateId |-> "t1", name |-> "Back Day", date |-> 0,
   muscles |-> <<"Back">>, defaultRestSeconds |-> 60,
   exercises |-> << [templateId |-> "row", title |-> "Barbell Row",
                     muscleGroup |-> "Back", description |-> "",
                     completed |-> TRUE,
                     sets |-> <<[setNumber |-> 1, reps |-> 5, weight |-> 2]>>] >>,
   startedAt |-> 0, finishedAt |-> 500, totalDurationSeconds |-> 0,
   totalVolume |-> 10]

\* new Date().toISOString().split("T")[0]: the day of the clock
dateOf(ms) == ms \div 86400000

\* sessions.sort((a, b) => time(b.startedAt) - time(a.startedAt)): a stable
\* sort, latest start first.
sortByStartedAt(sessions) ==
  LET Insert(sorted, x) ==
        LET before == Cardinality({j \in 1..Len(sorted) :
                                     sorted[j].startedAt >= x.startedAt})
        IN SubSeq(sorted, 1, before) \o <<x>>
             \o SubSeq(sorted, before + 1, Len(sorted))
      done[i \in 0..Len(sessions)] ==
        IF i = 0 THEN <<>> ELSE Insert(done[i - 1], sessions[i])
  IN done[Len(sessions)]

\* Variant: the comparator with its operands exchanged, earliest start first.
getSessions_ascending(stored) ==
  LET Insert(sorted, x) ==
        LET before == Cardinality({j \in 1..Len(sorted) :
                                     sorted[j].startedAt <= x.startedAt})
        IN SubSeq(sorted, 1, before) \o <<x>>
             \o SubSeq(sorted, before + 1, Len(sorted))
      done[i \in 0..Len(stored)] ==
        IF i = 0 THEN <<>> ELSE Insert(done[i - 1], stored[i])
  IN done[Len(stored)]

getSessions(stored) == sortByStartedAt(stored)

\* Variant: the history replaced by the session saved.
saveSession_onlyLast(stored, session) == <<session>>

\* the value saveSession writes under the sessions key
saveSession(stored, session) ==
  LET sessions == getSessions(stored)
      existing == {i \in 1..Len(sessions) : sessions[i].id = session.id}
  IN IF existing # {}
     THEN LET existingIndex == CHOOSE i \in existing :
                                 \A j \in existing : i <= j
          IN [sessions EXCEPT ![existingIndex] = session]
     ELSE Append(sessions, session)

calculateTotalVolume(session) ==
  LET exerciseVolume(sets) ==
        LET sum[i \in 0..Len(sets)] ==
              IF i = 0 THEN 0 ELSE sum[i - 1] + sets[i].weight * sets[i].reps
        IN sum[Len(sets)]
      total[i \in 0..Len(session.exercises)] ==
        IF i = 0 THEN 0
        ELSE total[i - 1] + exerciseVolume(session.exercises[i].sets)
  IN total[Len(session.exercises)]

calculateTotalSets(session) ==
  LET total[i \in 0..Len(session.exercises)] ==
        IF i = 0 THEN 0 ELSE total[i - 1] + Len(session.exercises[i].sets)
  IN total[Len(session.exercises)]

\* Variant: the effect that saves the active workout does nothing.
syncEffect_never(active, stored) == stored

\* useEffect(() => { if (activeWorkout) saveActiveWorkout(activeWorkout) }):
\* the value under the active-workout key after the effect has run.
syncEffect(active, stored) == IF active # Null THEN active ELSE stored

\* the indexes the handlers are called with; the last of each is past the end
\* of every array of the model
ExerciseIndexes == 0..2
SetIndexes == 0..MaxSets
SetUpdates ==
  {[reps |-> r] : r \in RepsValues} \cup {[weight |-> w] : w \in WeightValues}

\* updated.exercises[exerciseIndex] is not undefined
hasExercise(session, exerciseIndex) ==
  exerciseIndex + 1 \in DOMAIN session.exercises

\* setActiveWorkout(updated), the render and the effect that follow it
setActiveWorkout(updated) ==
  /\ activeWorkout' = updated
  /\ storedActiveWorkout' = syncEffect(updated, storedActiveWorkout)
  /\ thrown' = ""
  /\ UNCHANGED <<storedSessions, providerPhase, now>>
  /\ UNCHANGED <<genVars, estVars, nameVars, modalVars, builderVars,
                 historyVars,
                 laterVars>>

\* the handler returns without a call of setActiveWorkout
returnsEarly ==
  /\ thrown' = ""
  /\ UNCHANGED <<activeWorkout, storedActiveWorkout, storedSessions,
                 providerPhase, now>>
  /\ UNCHANGED <<genVars, estVars, nameVars, modalVars, builderVars,
                 historyVars,
                 laterVars>>

startWorkout ==
  /\ providerPhase = "ready"
  /\ \E template \in WorkoutTemplates, id \in NewSessionIds :
       /\ id \notin {storedSessions[i].id : i \in 1..Len(storedSessions)}
       /\ LET newSession ==
                [id |-> id, templateId |-> template.id, name |-> template.name,
                 date |-> dateOf(now), muscles |-> template.muscles,
                 defaultRestSeconds |-> template.defaultRestSeconds,
                 exercises |->
                   [i \in 1..Len(template.exercises) |->
                      LET ex == template.exercises[i]
                      IN [templateId |-> ex.id, title |-> ex.title,
                          muscleGroup |-> ex.muscleGroup,
                          description |-> ex.description,
                          sets |-> initialSets(ex.defaultSets),
                          completed |-> FALSE]],
                 startedAt |-> now]
          IN setActiveWorkout(newSession)

updateExerciseSetAt(exerciseIndex, setIndex, data) ==
  IF activeWorkout = Null THEN returnsEarly
  ELSE IF /\ hasExercise(activeWorkout, exerciseIndex)
          /\ setIndex + 1 \in
               DOMAIN activeWorkout.exercises[exerciseIndex + 1].sets
  THEN setActiveWorkout(
         [activeWorkout EXCEPT
            !.exercises[exerciseIndex + 1].sets[setIndex + 1] = data @@ @])
  ELSE returnsEarly

updateExerciseSet ==
  /\ providerPhase = "ready"
  /\ \E exerciseIndex \in ExerciseIndexes, setIndex \in SetIndexes, data \in SetUpdates :
       updateExerciseSetAt(exerciseIndex, setIndex, data)

\* Variant: the new set starts from zero whatever the last set holds.
newSet_zeroed(sets) ==
  [setNumber |-> Len(sets) + 1, reps |-> 0, weight |-> 0]

\* const lastSet = sets[sets.length - 1]; lastSet?.reps || 0, lastSet?.weight || 0
newSet(sets) ==
  LET lastSet == IF Len(sets) = 0 THEN Null ELSE sets[Len(sets)]
  IN [setNumber |-> Len(sets) + 1,
      reps |-> IF lastSet = Null \/ lastSet.reps = 0 THEN 0 ELSE lastSet.reps,
      weight |-> IF lastSet = Null \/ lastSet.weight = 0 THEN 0
                 ELSE lastSet.weight]

addSetAt(exerciseIndex) ==
  IF activeWorkout = Null THEN returnsEarly
  ELSE IF hasExercise(activeWorkout, exerciseIndex)
  THEN LET sets == activeWorkout.exercises[exerciseIndex + 1].sets
       IN /\ calculateTotalSets(activeWorkout) < MaxSets
          /\ setActiveWorkout(
               [activeWorkout EXCEPT
                  !.exercises[exerciseIndex + 1].sets =
                     Append(sets, newSet(sets))])
  ELSE returnsEarly

addSet ==
  /\ providerPhase = "ready"
  /\ \E exerciseIndex \in ExerciseIndexes :
       addSetAt(exerciseIndex)

\* sets.splice(setIndex, 1) and the renumbering that follows
\* Variant: the remaining sets keep the numbers they had.
spliceAndRenumber_keepsNumbers(sets, setIndex) ==
  IF setIndex + 1 \in DOMAIN sets
  THEN SubSeq(sets, 1, setIndex) \o SubSeq(sets, setIndex + 2, Len(sets))
  ELSE sets

spliceAndRenumber(sets, setIndex) ==
  LET spliced == IF setIndex + 1 \in DOMAIN sets
                 THEN SubSeq(sets, 1, setIndex)
                        \o SubSeq(sets, setIndex + 2, Len(sets))
                 ELSE sets
  IN [idx \in 1..Len(spliced) |-> [spliced[idx] EXCEPT !.setNumber = idx]]

removeSetAt(exerciseIndex, setIndex) ==
  IF activeWorkout = Null THEN returnsEarly
  ELSE IF /\ hasExercise(activeWorkout, exerciseIndex)
          /\ Len(activeWorkout.exercises[exerciseIndex + 1].sets) > 1
  THEN setActiveWorkout(
         [activeWorkout EXCEPT
            !.exercises[exerciseIndex + 1].sets =
               spliceAndRenumber(@, setIndex)])
  ELSE returnsEarly

removeSet ==
  /\ providerPhase = "ready"
  /\ \E exerciseIndex \in ExerciseIndexes, setIndex \in SetIndexes :
       removeSetAt(exerciseIndex, setIndex)

markExerciseCompleteAt(exerciseIndex, completed) ==
  IF activeWorkout = Null THEN returnsEarly
  ELSE IF hasExercise(activeWorkout, exerciseIndex)
  THEN setActiveWorkout(
         [activeWorkout EXCEPT
            !.exercises[exerciseIndex + 1].completed = completed])
  ELSE returnsEarly

markExerciseComplete ==
  /\ providerPhase = "ready"
  /\ \E exerciseIndex \in ExerciseIndexes, completed \in BOOLEAN :
       markExerciseCompleteAt(exerciseIndex, completed)

\* Variant: the sets of the new exercise always taken.
updatedExercise_newSets(oldExercise, newExercise) ==
  [sets |-> newExercise.sets, completed |-> FALSE] @@ newExercise

\* { ...newExercise, sets: old sets if any, else the new ones, completed: false }
updatedExercise(oldExercise, newExercise) ==
  [sets |-> IF Len(oldExercise.sets) > 0 THEN oldExercise.sets
            ELSE newExercise.sets,
   completed |-> FALSE] @@ newExercise

\* At an index past the end oldExercise is undefined and oldExercise.sets
\* throws before anything is changed.
swapExerciseAt(exerciseIndex) ==
  IF activeWorkout = Null THEN returnsEarly
  ELSE IF hasExercise(activeWorkout, exerciseIndex)
  THEN LET oldExercise == activeWorkout.exercises[exerciseIndex + 1]
       IN \E newExercise \in SwapExercises(oldExercise) :
            setActiveWorkout(
              [activeWorkout EXCEPT
                 !.exercises[exerciseIndex + 1] =
                    updatedExercise(oldExercise, newExercise)])
  ELSE /\ thrown' = "TypeError"
       /\ UNCHANGED <<activeWorkout, storedActiveWorkout, storedSessions,
                      providerPhase, now>>
       /\ UNCHANGED <<genVars, estVars, nameVars, modalVars, builderVars,
                      historyVars,
                      laterVars>>

swapExercise ==
  /\ providerPhase = "ready"
  /\ \E exerciseIndex \in ExerciseIndexes :
       swapExerciseAt(exerciseIndex)

\* saveSession, clearActiveWorkout, setActiveWorkout(null) and the effect,
\* which saves nothing for null
finishWorkout ==
  /\ providerPhase = "ready"
  /\ IF activeWorkout = Null THEN returnsEarly
     ELSE \E elapsed \in Elapsed :
            LET finishedAt == now + elapsed
                durationSeconds == (finishedAt - activeWorkout.startedAt) \div 1000
                completedSession ==
                  [finishedAt |-> finishedAt,
                   totalDurationSeconds |-> durationSeconds,
                   totalVolume |-> calculateTotalVolume(activeWorkout)]
                    @@ activeWorkout
            IN /\ activeWorkout' = Null
               /\ storedActiveWorkout' = syncEffect(Null, Null)
               /\ storedSessions' = saveSession(storedSessions, completedSession)
               /\ now' = finishedAt
               /\ thrown' = ""
               /\ UNCHANGED providerPhase
               /\ UNCHANGED <<genVars, estVars, nameVars, modalVars,
                              builderVars, historyVars,
                              laterVars>>

cancelWorkout ==
  /\ providerPhase = "ready"
  /\ storedActiveWorkout' = syncEffect(Null, Null)
  /\ activeWorkout' = Null
  /\ thrown' = ""
  /\ UNCHANGED <<storedSessions, providerPhase, now>>
  /\ UNCHANGED <<genVars, estVars, nameVars, modalVars, builderVars,
                 historyVars,
                 laterVars>>

\* The page is reloaded: the state of the provider is lost, localStorage
\* stays.
ReloadProvider ==
  /\ providerPhase = "ready"
  /\ providerPhase' = "mounting"
  /\ activeWorkout' = Null
  /\ thrown' = ""
  /\ UNCHANGED <<storedActiveWorkout, storedSessions, now>>
  /\ UNCHANGED <<genVars, estVars, nameVars, modalVars, builderVars,
                 historyVars,
                 laterVars>>

\* The effects of the first render, in the order of their declaration: the
\* load effect asks for the saved workout to be rendered, the save effect
\* sees the null of the first render; the render of the saved workout runs
\* the save effect again.
MountProvider ==
  /\ providerPhase = "mounting"
  /\ LET saved == storedActiveWorkout
         afterFirstRender == syncEffect(activeWorkout, storedActiveWorkout)
         rendered == IF saved # Null THEN saved ELSE activeWorkout
     IN /\ activeWorkout' = rendered
        /\ storedActiveWorkout' =
             IF saved # Null THEN syncEffect(rendered, afterFirstRender)
             ELSE afterFirstRender
  /\ providerPhase' = "ready"
  /\ thrown' = ""
  /\ UNCHANGED <<storedSessions, now>>
  /\ UNCHANGED <<genVars, estVars, nameVars, modalVars, builderVars,
                 historyVars,
                 laterVars>>

TrackerInit ==
  /\ activeWorkout = Null
  /\ storedActiveWorkout = Null
  /\ storedSessions \in {<<>>, <<OldSession>>}
  /\ providerPhase = "mounting"
  /\ now = OldSession.finishedAt
  /\ thrown = ""
  /\ GenIdle /\ EstIdle /\ NameIdle
  /\ ModalIdle /\ BuilderIdle /\ HistoryIdle /\ LaterIdle

TrackerNext ==
  \/ MountProvider
  \/ ReloadProvider
  \/ startWorkout
  \/ updateExerciseSet
  \/ addSet
  \/ removeSet
  \/ markExerciseComplete
  \/ swapExercise
  \/ finishWorkout
  \/ cancelWorkout

TrackerSpec == TrackerInit /\ [][TrackerNext]_vars

\* ------------------------------------------ properties of WorkoutProvider
\* the sum of weight x reps over the sets at the positions given
RECURSIVE VolumeOf(_, _)
VolumeOf(session, positions) ==
  IF positions = {} THEN 0
  ELSE LET p == CHOOSE q \in positions : TRUE
           set == session.exercises[p[1]].sets[p[2]]
       IN set.weight * set.reps + VolumeOf(session, positions \ {p})

SetPositions(session) ==
  {<<i, j>> \in (DOMAIN session.exercises) \X (1..(MaxSets + 1)) :
     j \in DOMAIN session.exercises[i].sets}

StoredWithId(sessions, id) == {i \in 1..Len(sessions) : sessions[i].id = id}

\* C15: finishWorkout on an active workout adds exactly one session to the
\* stored history; it carries the identifier, the exercises and the sets of
\* the active workout, the finishing time, the whole seconds from start to
\* finish and the sum of weight x reps over all sets; the sessions stored
\* before are all kept, and afterwards neither memory nor storage holds an
\* active workout.  cancelWorkout leaves no active workout in memory or in
\* storage and leaves the stored history as it was.
C15_FinishAndCancel ==
  [][ /\ (activeWorkout # Null /\ finishWorkout) =>
           /\ Len(storedSessions') = Len(storedSessions) + 1
           /\ Cardinality(StoredWithId(storedSessions', activeWorkout.id)) = 1
           /\ \A i \in StoredWithId(storedSessions', activeWorkout.id) :
                LET done == storedSessions'[i]
                IN /\ done.exercises = activeWorkout.exercises
                   /\ done.startedAt = activeWorkout.startedAt
                   /\ done.finishedAt = now'
                   /\ done.finishedAt >= done.startedAt
                   /\ done.totalDurationSeconds * 1000
                        <= done.finishedAt - done.startedAt
                   /\ done.finishedAt - done.startedAt
                        < (done.totalDurationSeconds + 1) * 1000
                   /\ done.totalVolume =
                        VolumeOf(activeWorkout, SetPositions(activeWorkout))
           /\ \A j \in 1..Len(storedSessions) :
                \E i \in 1..Len(storedSessions') :
                  storedSessions'[i] = storedSessions[j]
           /\ activeWorkout' = Null
           /\ storedActiveWorkout' = Null
      /\ cancelWorkout =>
           /\ activeWorkout' = Null
           /\ storedActiveWorkout' = Null
           /\ storedSessions' = storedSessions ]_vars

\* C15 witness: a workout with a set of 5 repetitions at 2 kg was finished
\* after 2.5 seconds and stands in the history next to the older session.
C15_Witness ==
  /\ activeWorkout = Null
  /\ storedActiveWorkout = Null
  /\ Len(storedSessions) = 2
  /\ \E i \in 1..Len(storedSessions) :
       /\ storedSessions[i].id \in NewSessionIds
       /\ storedSessions[i].totalVolume = 10
       /\ storedSessions[i].totalDurationSeconds = 2

\* C16: whenever the provider is mounted the value stored under the
\* active-workout key is the active workout in memory, so it is after each
\* of startWorkout, updateExerciseSet, addSet, removeSet,
\* markExerciseComplete and swapExercise; a reload leaves the stored value
\* alone and the mount that follows makes the stored workout the active one.
C16_AutoSaved ==
  /\ [](providerPhase = "ready" => storedActiveWorkout = activeWorkout)
  /\ [][ /\ providerPhase' = "mounting" =>
              storedActiveWorkout' = storedActiveWorkout
         /\ (providerPhase = "mounting" /\ providerPhase' = "ready") =>
              /\ activeWorkout' = storedActiveWorkout
              /\ storedActiveWorkout' = storedActiveWorkout ]_vars

\* C16 witness: the page was reloaded during a workout whose exercise had
\* been swapped and whose set had been filled in; the provider is about to
\* mount with that workout in storage.
C16_Witness ==
  /\ providerPhase = "mounting"
  /\ storedActiveWorkout # Null
  /\ \E i \in DOMAIN storedActiveWorkout.exercises :
       LET ex == storedActiveWorkout.exercises[i]
       IN /\ ex.templateId = "dips"
          /\ Len(ex.sets) = 2
          /\ ex.sets[2].reps = 5

\* the exercise at position k replaced by ex, nothing else touched
WithExercise(session, k, ex) == [session EXCEPT !.exercises[k] = ex]

\* C18: a swapExercise at a valid index gives the exercise at that index the
\* title, muscle group, description and template id of the new exercise,
\* keeps the sets of the replaced exercise when it had at least one, marks
\* it not completed, and leaves every other exercise and every other field
\* of the active workout as it was.
C18_SwapKeepsSets ==
  [][ (activeWorkout # Null /\ thrown' = "" /\ swapExercise) =>
        \E k \in DOMAIN activeWorkout.exercises :
          LET old == activeWorkout.exercises[k]
              new == activeWorkout'.exercises[k]
          IN /\ \E newExercise \in SwapExercises(old) :
                  /\ new.title = newExercise.title
                  /\ new.muscleGroup = newExercise.muscleGroup
                  /\ new.description = newExercise.description
                  /\ new.templateId = newExercise.templateId
             /\ Len(old.sets) >= 1 => new.sets = old.sets
             /\ new.completed = FALSE
             /\ activeWorkout' = WithExercise(activeWorkout, k, new) ]_vars

\* C18 witness: the Cable Fly, which comes with one set of its own, stands
\* in the place of an exercise and holds the two sets, one of them at 2 kg,
\* of the exercise it replaced.
C18_Witness ==
  /\ activeWorkout # Null
  /\ \E i \in DOMAIN activeWorkout.exercises :
       LET ex == activeWorkout.exercises[i]
       IN /\ ex.templateId = "fly"
          /\ Len(ex.sets) = 2
          /\ ex.sets[1].weight = 2
          /\ ~ex.completed

\* C19: an addSet that changes the active workout appends one set to one
\* exercise: its setNumber is the number of sets before plus one, its reps
\* and weight are those of the last set before, or 0 and 0 when there was
\* none; the earlier sets of that exercise, its other fields and all other
\* exercises are as they were.
C19_AddSetAppends ==
  [][ (activeWorkout # Null /\ activeWorkout' # activeWorkout /\ addSet) =>
        \E k \in DOMAIN activeWorkout.exercises :
          LET old == activeWorkout.exercises[k].sets
              new == activeWorkout'.exercises[k].sets
              added == new[Len(new)]
          IN /\ Len(new) = Len(old) + 1
             /\ \A i \in 1..Len(old) : new[i] = old[i]
             /\ added.setNumber = Len(old) + 1
             /\ added.reps = IF Len(old) = 0 THEN 0 ELSE old[Len(old)].reps
             /\ added.weight = IF Len(old) = 0 THEN 0 ELSE old[Len(old)].weight
             /\ activeWorkout' =
                  WithExercise(activeWorkout, k,
                               [activeWorkout.exercises[k] EXCEPT !.sets = new])
    ]_vars

\* C19 witness: the second set of an exercise is numbered 2 and holds the 5
\* repetitions at 2 kg of the first.
C19_Witness ==
  /\ activeWorkout # Null
  /\ \E i \in DOMAIN activeWorkout.exercises :
       LET sets == activeWorkout.exercises[i].sets
       IN /\ Len(sets) = 2
          /\ activeWorkout.exercises[i].templateId = "row"
          /\ sets[1].reps = 5 /\ sets[1].weight = 2
          /\ sets[2] = [setNumber |-> 2, reps |-> 5, weight |-> 2]

\* ---------------------------------------------------------- WorkoutBuilder
\* The builder's workout and its copy under the builder-state key.  The
\* effects of a render run after it, in the order of their declaration: the
\* load effect (WorkoutBuilder.tsx:69-74), then the save effect (77-79); a
\* setWorkout called by an effect is rendered after the effects of the
\* render before it have run.
DEFAULT_REST_SECONDS == 60

\* useState initial value.  generateId gives every mount an identifier of
\* its own; nothing compares identifiers, and one stands for all of them.
InitialWorkout ==
  [id |-> "new", name |-> "", date |-> 0, muscles |-> <<>>,
   exercises |-> <<>>, defaultRestSeconds |-> DEFAULT_REST_SECONDS]

\* the names typed and the muscle buttons pressed
BuilderNames == {"", "Push Day"}
BuilderMuscles == {"Chest", "Legs"}

\* a handler's setWorkout, the render and the save effect that follow it
WorkoutBuilder_setWorkout(updated) ==
  /\ builderPhase = "ready"
  /\ builderWorkout' = updated
  /\ storedBuilderState' = updated
  /\ UNCHANGED <<builderPhase, builderPending, persistedAtLoad>>
  /\ UNCHANGED <<genVars, estVars, nameVars, modalVars, trackerVars,
                 historyVars,
                 laterVars>>

WorkoutBuilder_setName ==
  \E name \in BuilderNames :
    /\ builderPhase = "ready"
    /\ WorkoutBuilder_setWorkout([builderWorkout EXCEPT !.name = name])

WorkoutBuilder_handleMuscleToggle ==
  \E muscle \in BuilderMuscles :
    /\ builderPhase = "ready"
    /\ WorkoutBuilder_setWorkout(
         [builderWorkout EXCEPT
            !.muscles = IF muscle \in Range(@)
                        THEN Filter(@, LAMBDA m : m # muscle)
                        ELSE Append(@, muscle)])

\* The page is loaded and the builder rendered for the first time.
WorkoutBuilder_render ==
  /\ builderPhase = "unmounted"
  /\ builderWorkout' = InitialWorkout
  /\ builderPending' = Null
  /\ persistedAtLoad' = storedBuilderState
  /\ builderPhase' = "rendered"
  /\ UNCHANGED storedBuilderState
  /\ UNCHANGED <<genVars, estVars, nameVars, modalVars, trackerVars,
                 historyVars,
                 laterVars>>

\* const saved = getBuilderState(); if (saved) setWorkout(saved)
WorkoutBuilder_loadEffect ==
  /\ builderPhase = "rendered"
  /\ builderPending' = IF storedBuilderState # Null THEN storedBuilderState
                       ELSE builderPending
  /\ builderPhase' = "loaded"
  /\ UNCHANGED <<builderWorkout, storedBuilderState, persistedAtLoad>>
  /\ UNCHANGED <<genVars, estVars, nameVars, modalVars, trackerVars,
                 historyVars,
                 laterVars>>

\* saveBuilderState(workout), with the workout of the render the effect
\* belongs to
WorkoutBuilder_saveEffect ==
  /\ builderPhase \in {"loaded", "rerendered"}
  /\ storedBuilderState' = builderWorkout
  /\ builderPhase' = IF builderPending # Null THEN "saved" ELSE "ready"
  /\ UNCHANGED <<builderWorkout, builderPending, persistedAtLoad>>
  /\ UNCHANGED <<genVars, estVars, nameVars, modalVars, trackerVars,
                 historyVars,
                 laterVars>>

\* the render of the workout that the load effect passed to setWorkout
WorkoutBuilder_rerender ==
  /\ builderPhase = "saved"
  /\ builderWorkout' = builderPending
  /\ builderPending' = Null
  /\ builderPhase' = "rerendered"
  /\ UNCHANGED <<storedBuilderState, persistedAtLoad>>
  /\ UNCHANGED <<genVars, estVars, nameVars, modalVars, trackerVars,
                 historyVars,
                 laterVars>>

\* The page is reloaded or closed: the builder's state is lost, localStorage
\* stays.
WorkoutBuilder_reload ==
  /\ builderPhase # "unmounted"
  /\ builderPhase' = "unmounted"
  /\ builderWorkout' = Null
  /\ builderPending' = Null
  /\ UNCHANGED <<storedBuilderState, persistedAtLoad>>
  /\ UNCHANGED <<genVars, estVars, nameVars, modalVars, trackerVars,
                 historyVars,
                 laterVars>>

BuilderInit ==
  /\ BuilderIdle
  /\ GenIdle /\ EstIdle /\ NameIdle
  /\ ModalIdle /\ TrackerIdle /\ HistoryIdle /\ LaterIdle

BuilderNext ==
  \/ WorkoutBuilder_render
  \/ WorkoutBuilder_loadEffect
  \/ WorkoutBuilder_saveEffect
  \/ WorkoutBuilder_rerender
  \/ WorkoutBuilder_setName
  \/ WorkoutBuilder_handleMuscleToggle
  \/ WorkoutBuilder_reload

BuilderSpec == BuilderInit /\ [][BuilderNext]_vars

\* C17: builder state persists across page reloads: once the load effect
\* and the save effect of a mount have run, in that order, the builder's
\* workout is the workout that was persisted when the page was loaded, and
\* a persisted workout is never replaced in storage by the empty initial
\* workout.
C17_BuilderStatePersists ==
  (persistedAtLoad # Null /\ persistedAtLoad # InitialWorkout) =>
    /\ builderPhase \in {"saved", "rerendered", "ready"} =>
         \/ builderWorkout = persistedAtLoad
         \/ builderPhase = "ready" /\ storedBuilderState = builderWorkout
    /\ storedBuilderState # InitialWorkout

\* ------------------------------------------------------- the history view
\* getSessions and getRecentSessions over the stored history.  A session is
\* held by the fields these functions read, id and startedAt; the history
\* grows by saveSession, as finishWorkout makes it grow.
MaxHistory == 6

\* the start times of the sessions saved
StartTimes == 1..3

\* getRecentSessions(limit = 5); HistoryModal asks for getRecentSessions(5)
RecentLimit == 5

getRecentSessions(stored, limit) == Slice(getSessions(stored), limit)

\* A workout is finished and saved; an answer given before was about the
\* history as it was, and is dropped.
History_saveSession ==
  /\ Len(storedSessions) < MaxHistory
  /\ \E startedAt \in StartTimes :
       storedSessions' =
         saveSession(storedSessions,
                     [id |-> Len(storedSessions) + 1, startedAt |-> startedAt])
  /\ sessionsResult' = Null
  /\ UNCHANGED <<activeWorkout, storedActiveWorkout, providerPhase, now,
                 thrown>>
  /\ UNCHANGED <<genVars, estVars, nameVars, modalVars, builderVars,
                 laterVars>>

History_getSessions ==
  /\ sessionsResult' = [sessions |-> getSessions(storedSessions)]
  /\ UNCHANGED <<genVars, estVars, nameVars, modalVars, trackerVars,
                 builderVars,
                 laterVars>>

History_getRecentSessions ==
  \E limit \in 0..(MaxHistory + 1) :
    /\ sessionsResult' = [limit |-> limit,
                          sessions |-> getRecentSessions(storedSessions, limit)]
    /\ UNCHANGED <<genVars, estVars, nameVars, modalVars, trackerVars,
                   builderVars,
                   laterVars>>

\* const recentSessions = getRecentSessions(5)
HistoryModal ==
  /\ sessionsResult' =
       [view |-> "Recent Workouts",
        sessions |-> getRecentSessions(storedSessions, RecentLimit)]
  /\ UNCHANGED <<genVars, estVars, nameVars, modalVars, trackerVars,
                 builderVars,
                 laterVars>>

HistoryInit ==
  /\ HistoryIdle
  /\ GenIdle /\ EstIdle /\ NameIdle
  /\ ModalIdle /\ TrackerIdle /\ BuilderIdle /\ LaterIdle

HistoryNext ==
  \/ History_saveSession
  \/ History_getSessions
  \/ History_getRecentSessions
  \/ HistoryModal

HistorySpec == HistoryInit /\ [][HistoryNext]_vars

\* latest start first
LatestFirst(list) ==
  \A i, j \in 1..Len(list) : i < j => list[i].startedAt >= list[j].startedAt

\* list holds n of the stored sessions, or all of them when fewer than n are
\* stored, no session twice, and no stored session left out started later
\* than one of list
MostRecent(list, n) ==
  /\ Len(list) = Min(n, Len(storedSessions))
  /\ Range(list) \subseteq Range(storedSessions)
  /\ Cardinality(Range(list)) = Len(list)
  /\ \A kept \in Range(list) :
       \A left \in Range(storedSessions) \ Range(list) :
         kept.startedAt >= left.startedAt

\* C20: getSessions answers with all stored sessions, the latest start
\* first; getRecentSessions(n) answers with the n sessions started last, or
\* all of them when fewer than n are stored, the latest start first; the
\* history view lists the 5 sessions started last.
C20_RecentSessions ==
  sessionsResult # Null =>
    LET list == sessionsResult.sessions
    IN /\ LatestFirst(list)
       /\ MostRecent(list,
                     IF Has(sessionsResult, "limit") THEN sessionsResult.limit
                     ELSE IF Has(sessionsResult, "view") THEN 5
                     ELSE Len(storedSessions))

\* C20 witness: six sessions are stored, the one saved last started last,
\* and the history view lists five of them with that one first.
C20_Witness ==
  /\ sessionsResult # Null
  /\ Has(sessionsResult, "view")
  /\ Len(storedSessions) = 6
  /\ Len(sessionsResult.sessions) = 5
  /\ sessionsResult.sessions[1] = storedSessions[6]
  /\ sessionsResult.sessions[1].startedAt > sessionsResult.sessions[2].startedAt

\* ------------------------------------------------- the category balancer
\* balanceExerciseSelection, the balancer of lib/workoutGenerator: the
\* quotas of the requested muscle groups over the push, pull, legs and other
\* buckets.  The Map it returns is a function over the muscle groups set.
MaxTotalCount == 9

\* a % b of JavaScript, for b > 0: the sign is that of the dividend
JsRemainder(a, b) == IF a >= 0 THEN a % b ELSE -((-a) % b)

getMuscleCategory_backIsPush(muscle) ==
  CASE muscle = "Chest" -> "push"
    [] muscle = "Shoulders" -> "push"
    [] muscle = "Back" -> "push"
    [] muscle = "Legs" -> "legs"
    [] muscle = "Arms" -> "push"
    [] OTHER -> "other"

getMuscleCategory(muscle) ==
  CASE muscle = "Chest" -> "push"
    [] muscle = "Shoulders" -> "push"
    [] muscle = "Back" -> "pull"
    [] muscle = "Legs" -> "legs"
    [] muscle = "Arms" -> "push"
    [] OTHER -> "other"

\* the categories array: the four buckets in the order push, pull, legs,
\* other, without the empty ones
categoriesOf(muscles) ==
  LET \* muscles.filter((m) => getMuscleCategory(m) === category)
      musclesOfCategory(category) ==
        LET InCategory(m) == getMuscleCategory(m) = category
        IN Filter(muscles, InCategory)
      Bucket(category) ==
        [muscles |-> musclesOfCategory(category),
         count |-> Len(musclesOfCategory(category))]
      NonEmpty(cat) == cat.count > 0
  IN Filter(<<Bucket("push"), Bucket("pull"), Bucket("legs"),
              Bucket("other")>>, NonEmpty)

balanceExerciseSelection(muscles, totalExerciseCount) ==
  IF Len(muscles) = 1
  THEN [m \in {muscles[1]} |-> totalExerciseCount]
  ELSE
    LET categories == categoriesOf(muscles)
        \* with no category the two divisions give Infinity and NaN, and
        \* forEach runs over nothing: the map stays empty
        exercisesPerCategory == totalExerciseCount \div Len(categories)
        remainder == JsRemainder(totalExerciseCount, Len(categories))
        \* the callback of categories.forEach, index counted from 0
        QuotaIn(index) ==
          LET cat == categories[index + 1]
              exercisesPerMuscle == exercisesPerCategory \div cat.count
              extra == IF index < remainder THEN 1 ELSE 0
              \* extra / cat.count > 0.5
          IN exercisesPerMuscle + (IF 2 * extra > cat.count THEN 1 ELSE 0)
        \* a later set() of the same muscle replaces the earlier one
        LastIndexOf(m) ==
          CHOOSE index \in 0..(Len(categories) - 1) :
            /\ m \in Range(categories[index + 1].muscles)
            /\ \A later \in (index + 1)..(Len(categories) - 1) :
                 m \notin Range(categories[later + 1].muscles)
    IN IF Len(categories) = 0 THEN [m \in {} |-> 0]
       ELSE [m \in Range(muscles) |-> QuotaIn(LastIndexOf(m))]

BalanceArgs ==
  {[muscles |-> m, totalExerciseCount |-> t] :
     m \in SeqsUpTo(MuscleGroup, MaxMuscles), t \in 0..MaxTotalCount}

BalanceExerciseSelection ==
  /\ balResult = Null
  /\ balResult' =
       [distribution |->
          balanceExerciseSelection(balArgs.muscles,
                                   balArgs.totalExerciseCount)]
  /\ UNCHANGED <<balArgs, selVars, durVars, timerVars>>
  /\ UNCHANGED <<genVars, estVars, nameVars, modalVars, trackerVars,
                 builderVars, historyVars>>

BalanceInit ==
  /\ balArgs \in BalanceArgs
  /\ balResult = Null
  /\ SelIdle /\ DurIdle /\ TimerIdle
  /\ GenIdle /\ EstIdle /\ NameIdle
  /\ ModalIdle /\ TrackerIdle /\ BuilderIdle /\ HistoryIdle

BalanceSpec == BalanceInit /\ [][BalanceExerciseSelection]_vars

\* the quota of a category for the target count of the last call
CategoryQuota(category) ==
  CASE category = "compound" -> compoundCount(targetExerciseCount)
    [] category = "isolation" -> isolationCount(targetExerciseCount)
    [] category = "finisher" -> finisherCount(targetExerciseCount)

\* the exercises of a category selected by the last call
SelectedOf(category) ==
  {ex \in Range(orderedExercises) : ex.category = category}

\* C21: for a request with two or more muscle groups, no requested muscle
\* group contributes more exercises to the selection of a category than the
\* quota balanceExerciseSelection(muscleGroups, quota of the category)
\* gives it.
C21_SelectionWithinBalancedQuotas ==
  (Returned /\ Len(preferences.muscleGroups) >= 2) =>
    \A category \in ExerciseCategory :
      \A m \in Range(preferences.muscleGroups) :
        Cardinality({ex \in SelectedOf(category) : ex.muscleGroup = m})
          <= balanceExerciseSelection(preferences.muscleGroups,
                                      CategoryQuota(category))[m]

\* the sum of the quotas a distribution gives the muscle groups of a set
RECURSIVE SumOver(_, _)
SumOver(distribution, S) ==
  IF S = {} THEN 0
  ELSE LET m == CHOOSE x \in S : TRUE
       IN distribution[m] + SumOver(distribution, S \ {m})

\* the buckets as the specification lists them, in bucket order
StatedBuckets ==
  << {"Chest", "Shoulders", "Arms"}, {"Back"}, {"Legs"},
     MuscleGroup \ {"Chest", "Shoulders", "Arms", "Back", "Legs"} >>

\* the positions in StatedBuckets of the buckets a muscle list fills
FilledBuckets(muscles) ==
  {b \in 1..4 : StatedBuckets[b] \cap Range(muscles) # {}}

\* how many of the filled buckets come before bucket b
BucketIndex(muscles, b) ==
  Cardinality({a \in FilledBuckets(muscles) : a < b})

Balanced == balResult # Null

\* C22: with totalCount split by integer division across the k non-empty
\* buckets and r = totalCount mod k, each of the first r buckets in bucket
\* order receives one exercise beyond what the even share gives its muscle
\* groups, whatever the number of muscle groups in the bucket, and the
\* quotas over all muscle groups never sum to more than totalCount.
C22_FirstBucketsGetTheExtra ==
  (Balanced /\ balArgs.muscles # <<>>) =>
    LET muscles == balArgs.muscles
        totalCount == balArgs.totalExerciseCount
        distribution == balResult.distribution
        k == Cardinality(FilledBuckets(muscles))
        share == totalCount \div k
        r == totalCount % k
    IN /\ \A b \in FilledBuckets(muscles) :
            LET members == StatedBuckets[b] \cap Range(muscles)
                size == Cardinality({i \in 1..Len(muscles) :
                                       muscles[i] \in StatedBuckets[b]})
            IN BucketIndex(muscles, b) < r =>
                 SumOver(distribution, members)
                   = Cardinality(members) * (share \div size) + 1
       /\ SumOver(distribution, DOMAIN distribution) <= totalCount

\* C23: a single requested muscle group receives the entire totalCount;
\* muscle groups that each fall in a different bucket, with totalCount
\* divisible by the number of buckets, receive totalCount divided by the
\* number of buckets each (Chest, Back, Legs with 9 gives 3 each); every
\* requested muscle group has an entry in the result.
C23_SingleAndOnePerBucket ==
  (Balanced /\ balArgs.muscles # <<>>) =>
    LET muscles == balArgs.muscles
        totalCount == balArgs.totalExerciseCount
        distribution == balResult.distribution
        k == Cardinality(FilledBuckets(muscles))
        OnePerBucket ==
          /\ Len(muscles) = k
          /\ totalCount % k = 0
    IN /\ DOMAIN distribution = Range(muscles)
       /\ Len(muscles) = 1 => distribution[muscles[1]] = totalCount
       /\ OnePerBucket =>
            \A m \in Range(muscles) : distribution[m] = totalCount \div k
       /\ (muscles = <<"Chest", "Back", "Legs">> /\ totalCount = 9) =>
            distribution = [m \in {"Chest", "Back", "Legs"} |-> 3]

C23_Witness ==
  /\ Balanced
  /\ balArgs.muscles = <<"Chest", "Back", "Legs">>
  /\ balArgs.totalExerciseCount = 9
  /\ balResult.distribution["Back"] = 3

\* ceil and floor of the fraction num / den, for den > 0
CeilOf(num, den) == (num + den - 1) \div den
FloorOf(num, den) == num \div den

\* the quotas as stated: ceil(0.50 n), ceil(0.35 n), max(1, floor(0.15 n))
StatedQuota(category, n) ==
  CASE category = "compound" -> CeilOf(50 * n, 100)
    [] category = "isolation" -> CeilOf(35 * n, 100)
    [] category = "finisher" -> Max(1, FloorOf(15 * n, 100))

\* the last call did not take the fallback: its plan is the selection, cut
\* down by the difficulty filter when a difficulty was given
NonFallback ==
  /\ Returned
  /\ IF DifficultyGiven
     THEN \E i \in 1..Len(orderedExercises) :
            Passes(preferences.difficulty, orderedExercises[i])
     ELSE orderedExercises # <<>>

\* how many exercises of a category a list holds
CountOf(exercises, category) ==
  Cardinality({i \in 1..Len(exercises) : exercises[i].category = category})

\* C24: for target count n the quotas are ceil(0.50 n), ceil(0.35 n) and
\* max(1, floor(0.15 n)), each computed by itself: a plan off the fallback
\* path holds at most the quota of each category and never more than the
\* three quotas together, though possibly more than n.
C24_CategoryQuotas ==
  NonFallback =>
    LET n == targetExerciseCount
    IN /\ \A category \in ExerciseCategory :
            CountOf(workout.exercises, category) <= StatedQuota(category, n)
       /\ Len(workout.exercises)
            <= StatedQuota("compound", n) + StatedQuota("isolation", n)
                 + StatedQuota("finisher", n)

\* C24 witness: a plan off the fallback path that fills all three quotas and
\* holds more exercises than the target count.
C24_Witness ==
  /\ NonFallback
  /\ \A category \in ExerciseCategory :
       CountOf(workout.exercises, category)
         = StatedQuota(category, targetExerciseCount)
  /\ Len(workout.exercises) > targetExerciseCount

\* ------------------------------------------------------------ the selector
\* selectExercises under inputs of its own: a pool drawn from the master
\* list, a count, and a set of identifiers to leave out.
MaxPool == 3

SelectPools ==
  {Pick(MasterCatalog, idx) :
     idx \in {x \in SUBSET (1..Len(MasterCatalog)) : Cardinality(x) <= MaxPool}}

SelectArgs ==
  {[availableExercises |-> pool, count |-> count, excludeIds |-> excludeIds] :
     pool \in SelectPools, count \in 0..(MaxPool + 1),
     excludeIds \in SUBSET (1..4)}

SelectExercises ==
  /\ selResult = Null
  /\ \E selected \in selectExercises(selArgs.availableExercises,
                                     selArgs.count, selArgs.excludeIds) :
       selResult' = [exercises |-> selected]
  /\ UNCHANGED <<selArgs, balVars, durVars, timerVars>>
  /\ UNCHANGED <<genVars, estVars, nameVars, modalVars, trackerVars,
                 builderVars, historyVars>>

SelectInit ==
  /\ selArgs \in SelectArgs
  /\ selResult = Null
  /\ BalIdle /\ DurIdle /\ TimerIdle
  /\ GenIdle /\ EstIdle /\ NameIdle
  /\ ModalIdle /\ TrackerIdle /\ BuilderIdle /\ HistoryIdle

SelectSpec == SelectInit /\ [][SelectExercises]_vars

Selected == selResult # Null

\* the pool records whose identifier is not excluded
Eligible ==
  {ex \in Range(selArgs.availableExercises) : ex.id \notin selArgs.excludeIds}

\* C25: select(pool, count, exclude) with count >= 0 returns exactly
\* min(count, number of pool records not excluded) records; every returned
\* record is a pool record whose identifier is not in exclude, none is
\* returned twice, and neither pool nor exclude is modified.
C25_SelectReturns ==
  /\ [](Selected =>
          LET result == selResult.exercises
          IN /\ Len(result) = Min(selArgs.count, Cardinality(Eligible))
             /\ \A i \in 1..Len(result) : result[i] \in Eligible
             /\ \A i, j \in 1..Len(result) : i # j => result[i] # result[j])
  /\ [][selArgs' = selArgs]_vars

\* C25 witness: a selection cut by the count, from a pool with an excluded
\* record and more eligible records than asked for.
C25_Witness ==
  /\ Selected
  /\ Len(selArgs.availableExercises) = 3
  /\ Cardinality(Eligible) = 2
  /\ selArgs.count = 1
  /\ Len(selResult.exercises) = 1

\* ---------------------------------------------------- the duration estimates
\* estimateExerciseDuration (lib/workoutGenerator) and estimateWorkoutDuration
\* (lib/storage), under inputs of their own.
MaxDefaultSets == 3

\* const avgTimePerSetSeconds = 40, local of estimateWorkoutDuration
avgTimePerSetSeconds == 40

estimateExerciseDuration(exercise, workoutRestTime) ==
  LET sets == exercise.defaultSets
      \* exercise.restSeconds || workoutRestTime: an absent or zero
      \* restSeconds gives way to the rest time of the workout
      restTime == IF Has(exercise, "restSeconds") /\ exercise.restSeconds # 0
                  THEN exercise.restSeconds
                  ELSE workoutRestTime
      totalSetTime == sets * AVG_TIME_PER_SET_SECONDS
      totalRestTime == (sets - 1) * restTime
  IN totalSetTime + totalRestTime

\* template.exercises.reduce((sum, ex) => sum + ex.defaultSets, 0)
RECURSIVE totalSetsOf(_)
totalSetsOf(exercises) ==
  IF exercises = <<>> THEN 0
  ELSE Head(exercises).defaultSets + totalSetsOf(Tail(exercises))

estimateWorkoutDuration(template) ==
  LET totalSets == totalSetsOf(template.exercises)
      totalRests == Max(0, totalSets - 1)
      totalRestTime == totalRests * template.defaultRestSeconds
      totalSetTime == totalSets * avgTimePerSetSeconds
  IN totalSetTime + totalRestTime

DurationExercises ==
  {[defaultSets |-> sets] @@ rest :
     sets \in 0..MaxDefaultSets, rest \in Optional("restSeconds", {0, 30})}

DurationTemplates ==
  {[exercises |-> exercises, defaultRestSeconds |-> rest] :
     exercises \in SeqsUpTo({[defaultSets |-> sets] :
                               sets \in 0..MaxDefaultSets}, 2),
     rest \in RestSeconds}

DurationArgs ==
  {[exercise |-> exercise, workoutRestTime |-> rest] :
     exercise \in DurationExercises, rest \in RestSeconds}
  \cup {[template |-> template] : template \in DurationTemplates}

EstimateExerciseDuration ==
  /\ durResult = Null
  /\ Has(durArgs, "exercise")
  /\ durResult' =
       [seconds |-> estimateExerciseDuration(durArgs.exercise,
                                             durArgs.workoutRestTime)]
  /\ UNCHANGED <<durArgs, balVars, selVars, timerVars>>
  /\ UNCHANGED <<genVars, estVars, nameVars, modalVars, trackerVars,
                 builderVars, historyVars>>

EstimateWorkoutDuration ==
  /\ durResult = Null
  /\ Has(durArgs, "template")
  /\ durResult' = [seconds |-> estimateWorkoutDuration(durArgs.template)]
  /\ UNCHANGED <<durArgs, balVars, selVars, timerVars>>
  /\ UNCHANGED <<genVars, estVars, nameVars, modalVars, trackerVars,
                 builderVars, historyVars>>

DurationInit ==
  /\ durArgs \in DurationArgs
  /\ durResult = Null
  /\ BalIdle /\ SelIdle /\ TimerIdle
  /\ GenIdle /\ EstIdle /\ NameIdle
  /\ ModalIdle /\ TrackerIdle /\ BuilderIdle /\ HistoryIdle

DurationNext ==
  \/ EstimateExerciseDuration
  \/ EstimateWorkoutDuration

DurationSpec == DurationInit /\ [][DurationNext]_vars

\* the set count and the rest the estimate made is about
EstimatedSetCount ==
  IF Has(durArgs, "exercise") THEN durArgs.exercise.defaultSets
  ELSE totalSetsOf(durArgs.template.exercises)
EstimatedRest ==
  IF Has(durArgs, "exercise")
  THEN (IF Has(durArgs.exercise, "restSeconds")
           /\ durArgs.exercise.restSeconds > 0
        THEN durArgs.exercise.restSeconds ELSE durArgs.workoutRestTime)
  ELSE durArgs.template.defaultRestSeconds

\* C26: the estimate for setCount sets with rest restSeconds is
\* setCount * 40 + max(0, setCount - 1) * restSeconds, and is never
\* negative for a setCount >= 0, for a single exercise and for a whole
\* workout alike.
C26_RestBetweenSetsOnly ==
  durResult # Null =>
    /\ durResult.seconds =
         EstimatedSetCount * 40
           + Max(0, EstimatedSetCount - 1) * EstimatedRest
    /\ durResult.seconds >= 0

\* ------------------------------------------ the sets of the active workout
\* the active workout was started from a template whose exercises all have
\* at least one default set
StartedWithSets ==
  /\ activeWorkout # Null
  /\ \E template \in WorkoutTemplates :
       /\ template.id = activeWorkout.templateId
       /\ \A i \in 1..Len(template.exercises) :
            template.exercises[i].defaultSets >= 1

\* C27: in every state reached from startWorkout on a template whose
\* exercises all have defaultSets >= 1, every exercise of the active workout
\* has at least one set and its sets carry the numbers 1, 2, ..., n in
\* order; removeSet on an exercise with a single set changes nothing.
C27_SetsNumberedFromOne ==
  /\ [](StartedWithSets =>
          \A e \in 1..Len(activeWorkout.exercises) :
            LET sets == activeWorkout.exercises[e].sets
            IN /\ Len(sets) >= 1
               /\ \A i \in 1..Len(sets) : sets[i].setNumber = i)
  /\ [][(/\ StartedWithSets
         /\ \A e \in 1..Len(activeWorkout.exercises) :
              Len(activeWorkout.exercises[e].sets) = 1
         /\ removeSet)
          => UNCHANGED <<activeWorkout, storedActiveWorkout>>]_vars

\* C27 witness: a workout started with one set per exercise, after addSet,
\* swapExercise and markExerciseComplete: two sets, numbered 1 and 2.
C27_Witness ==
  /\ StartedWithSets
  /\ activeWorkout.exercises[1].templateId = "dips"
  /\ activeWorkout.exercises[1].completed
  /\ Len(activeWorkout.exercises[1].sets) = 2
  /\ activeWorkout.exercises[1].sets[2].setNumber = 2
  /\ activeWorkout.exercises[1].sets[2].reps = 5

\* ------------------------------------- handler calls that address nothing
\* there is no active workout, or it has no exercise at the index
NoSuchExercise(exerciseIndex) ==
  \/ activeWorkout = Null
  \/ exerciseIndex + 1 \notin DOMAIN activeWorkout.exercises

\* there is no such exercise, or it has no set at the index
NoSuchSet(exerciseIndex, setIndex) ==
  \/ NoSuchExercise(exerciseIndex)
  \/ setIndex + 1 \notin DOMAIN activeWorkout.exercises[exerciseIndex + 1].sets

\* the step raised no error and left the active workout, the persisted
\* active workout and the stored history as they were
NoErrorNoChange ==
  /\ thrown' = ""
  /\ UNCHANGED <<activeWorkout, storedActiveWorkout, storedSessions>>

\* C30: updateExerciseSet, addSet, removeSet, markExerciseComplete,
\* swapExercise and finishWorkout, called with no active workout or with an
\* exercise index or set index that does not exist in the active workout,
\* raise no error and leave the active workout, the persisted active workout
\* and the stored history unchanged.
C30_InvalidCallsChangeNothing ==
  [][providerPhase = "ready" =>
       /\ \A exerciseIndex \in ExerciseIndexes, setIndex \in SetIndexes :
            /\ \A data \in SetUpdates :
                 (/\ updateExerciseSetAt(exerciseIndex, setIndex, data)
                  /\ NoSuchSet(exerciseIndex, setIndex)) => NoErrorNoChange
            /\ (/\ removeSetAt(exerciseIndex, setIndex)
                /\ NoSuchSet(exerciseIndex, setIndex)) => NoErrorNoChange
       /\ \A exerciseIndex \in ExerciseIndexes :
            /\ (addSetAt(exerciseIndex) /\ NoSuchExercise(exerciseIndex))
                 => NoErrorNoChange
            /\ \A completed \in BOOLEAN :
                 (/\ markExerciseCompleteAt(exerciseIndex, completed)
                  /\ NoSuchExercise(exerciseIndex)) => NoErrorNoChange
            /\ (swapExerciseAt(exerciseIndex) /\ NoSuchExercise(exerciseIndex))
                 => NoErrorNoChange
       /\ (finishWorkout /\ activeWorkout = Null) => NoErrorNoChange]_vars

\* ------------------------------------------------------------ the rest timer
\* RestTimer (components/Workout/RestTimer.tsx): a click handler together
\* with the render and the countdown effect that follow it is one step; the
\* interval the effect keeps while isRunning && secondsLeft > 0 gives the
\* ticks.  onCompleteCalls counts the calls of onComplete since the last
\* Start.
MaxDefaultSeconds == 2

\* the defaultSeconds prop: the defaultRestSeconds of the active workout
DefaultSeconds == 0..MaxDefaultSeconds

\* the quick time presets: 30s, 60s, 90s, 2m
PresetSeconds == {30, 60, 90, 120}

\* Variant: Start at 0 resumes where the timer stands.
handleStart_resumesAtZero ==
  /\ ~isRunning
  /\ isRunning' = TRUE
  /\ onCompleteCalls' = 0
  /\ UNCHANGED <<secondsLeft, totalSeconds, balVars, selVars, durVars>>
  /\ UNCHANGED <<genVars, estVars, nameVars, modalVars, trackerVars,
                 builderVars, historyVars>>

\* the Start button, shown while the timer is not running
handleStart ==
  /\ ~isRunning
  /\ secondsLeft' = IF secondsLeft = 0 THEN totalSeconds ELSE secondsLeft
  /\ isRunning' = TRUE
  /\ onCompleteCalls' = 0
  /\ UNCHANGED <<totalSeconds, balVars, selVars, durVars>>
  /\ UNCHANGED <<genVars, estVars, nameVars, modalVars, trackerVars,
                 builderVars, historyVars>>

\* the Pause button, shown while the timer is running
handlePause ==
  /\ isRunning
  /\ isRunning' = FALSE
  /\ UNCHANGED <<secondsLeft, totalSeconds, onCompleteCalls, balVars, selVars,
                 durVars>>
  /\ UNCHANGED <<genVars, estVars, nameVars, modalVars, trackerVars,
                 builderVars, historyVars>>

handleReset ==
  /\ isRunning' = FALSE
  /\ secondsLeft' = totalSeconds
  /\ UNCHANGED <<totalSeconds, onCompleteCalls, balVars, selVars, durVars>>
  /\ UNCHANGED <<genVars, estVars, nameVars, modalVars, trackerVars,
                 builderVars, historyVars>>

handleSetTime ==
  \E seconds \in PresetSeconds :
    /\ isRunning' = FALSE
    /\ totalSeconds' = seconds
    /\ secondsLeft' = seconds
    /\ UNCHANGED <<onCompleteCalls, balVars, selVars, durVars>>
    /\ UNCHANGED <<genVars, estVars, nameVars, modalVars, trackerVars,
                   builderVars, historyVars>>

\* the callback of setInterval: setSecondsLeft((prev) => ...)
RestTimer_tick ==
  /\ isRunning /\ secondsLeft > 0
  /\ IF secondsLeft <= 1
     THEN /\ isRunning' = FALSE
          /\ onCompleteCalls' = onCompleteCalls + 1
          /\ secondsLeft' = 0
     ELSE /\ secondsLeft' = secondsLeft - 1
          /\ UNCHANGED <<isRunning, onCompleteCalls>>
  /\ UNCHANGED <<totalSeconds, balVars, selVars, durVars>>
  /\ UNCHANGED <<genVars, estVars, nameVars, modalVars, trackerVars,
                 builderVars, historyVars>>

TimerInit ==
  /\ \E defaultSeconds \in DefaultSeconds :
       /\ secondsLeft = defaultSeconds
       /\ totalSeconds = defaultSeconds
  /\ isRunning = FALSE
  /\ onCompleteCalls = 0
  /\ BalIdle /\ SelIdle /\ DurIdle
  /\ GenIdle /\ EstIdle /\ NameIdle
  /\ ModalIdle /\ TrackerIdle /\ BuilderIdle /\ HistoryIdle

TimerNext ==
  \/ handleStart
  \/ handlePause
  \/ handleReset
  \/ handleSetTime
  \/ RestTimer_tick

TimerSpec == TimerInit /\ [][TimerNext]_vars

\* C28: after Start, for every default or preset duration including 0, the
\* running timer has seconds left to count down, so that with no button
\* pressed the ticks bring it to secondsLeft = 0 with isRunning = false and
\* onComplete is called once for the countdown; the timer is never in the
\* running state with secondsLeft = 0.
C28_RunningTimerCountsDown ==
  /\ isRunning => (secondsLeft > 0 /\ onCompleteCalls = 0)
  /\ onCompleteCalls <= 1

\* C29: in every state of the rest timer 0 <= secondsLeft <= totalSeconds; a
\* tick lowers secondsLeft by exactly 1 and only while running; Pause leaves
\* secondsLeft unchanged; Reset and a preset stop the timer and set
\* secondsLeft = totalSeconds; Start at secondsLeft = 0 restarts from
\* totalSeconds.
C29_TimerSteps ==
  /\ [](0 <= secondsLeft /\ secondsLeft <= totalSeconds)
  /\ [][RestTimer_tick => (isRunning /\ secondsLeft' = secondsLeft - 1)]_vars
  /\ [][(secondsLeft' # secondsLeft /\ totalSeconds' = totalSeconds
           /\ ~isRunning)
          => (secondsLeft' = totalSeconds)]_vars
  /\ [][handlePause => secondsLeft' = secondsLeft]_vars
  /\ [][(handleReset \/ handleSetTime)
          => (~isRunning' /\ secondsLeft' = totalSeconds')]_vars
  /\ [][(handleStart /\ secondsLeft = 0)
          => (isRunning' /\ secondsLeft' = totalSeconds)]_vars

\* C29 witness: a countdown under way, paused after some ticks.
C29_Witness ==
  /\ ~isRunning
  /\ 0 < secondsLeft /\ secondsLeft < totalSeconds
  /\ totalSeconds \in PresetSeconds

====
